---------------------------- MODULE Spec2Model ----------------------------
(***************************************************************************)
(* Model of the extension-hours application: the DuckDB store of           *)
(* utils/db.py (tables, sequences, audit log, CRUD calls) and the session  *)
(* layer of utils/auth.py, utils/microsoft_auth.py and the Streamlit       *)
(* pages that call them.                                                   *)
(*                                                                         *)
(* Text values are sequences of one-character strings, so that strip(),    *)
(* lower(), split() and the regular expressions of the source are computed *)
(* and not assumed.                                                        *)
(***************************************************************************)
EXTENDS Integers, Sequences, FiniteSets, TLC

(***************************************************************************)
(* Bounds of the model.                                                    *)
(***************************************************************************)
\* largest identifier a catalog or record sequence may hand out
MaxId == 2
\* largest identifier the usuarios sequence may hand out (four are seeds)
MaxUsuarioId == 5
\* longest audit log, under every call of the store
MaxAudit == 2
\* longest audit log, under the calls on the catalogs alone
MaxAuditCatalogo == 3
\* under the calls on records: largest student and place identifier, largest
\* record identifier, longest audit log
MaxCatalogo == 1
MaxRegistros == 2
MaxAuditRegistros == 5
\* longest audit log, under every function that writes
MaxAuditAlmacen == 5
\* longest audit log, under the catalog pages
MaxAuditPaginas == 4
\* longest audit log, under two threads
MaxAuditConcurrente == 3
\* longest audit log, under the validation page
MaxAuditValidacion == 5
\* under the calls that change the listing: largest record identifier,
\* longest audit log
MaxListado == 2
MaxAuditListado == 5
\* storage errors the engine raises in one run
MaxFaults == 1

(***************************************************************************)
(* Text helpers: str.strip, str.lower, str.split, str.endswith.            *)
(***************************************************************************)
\* Python's None for a text value (a text is a sequence of single characters,
\* so no text equals it), for an optional identifier and for a snapshot
NullText == <<"NULL">>

NoId == 0

NoRow == [absent |-> TRUE]

IsSpace(c) == c \in {" ", "\t", "\n"}

IsDigit(c) == c \in {"0", "1", "2", "3", "4", "5", "6", "7", "8", "9"}

LowerLetters ==
    {"a", "b", "c", "d", "e", "f", "g", "h", "i", "j", "k", "l", "m", "n",
     "o", "p", "q", "r", "s", "t", "u", "v", "w", "x", "y", "z"}

UpperLetters == {"A", "B", "D", "E", "G", "T", "U", "V"}

LowerChar(c) ==
    CASE c = "A" -> "a" [] c = "B" -> "b" [] c = "D" -> "d" [] c = "E" -> "e" [] c = "G" -> "g"
      [] c = "T" -> "t" [] c = "U" -> "u" [] c = "V" -> "v" [] OTHER -> c

\* the class [a-zA-Z] of the regular expressions
IsLetter(c) == c \in LowerLetters \cup UpperLetters

Lower(s) == [i \in 1..Len(s) |-> LowerChar(s[i])]

RECURSIVE LStrip(_)
LStrip(s) == IF s # <<>> /\ IsSpace(Head(s)) THEN LStrip(Tail(s)) ELSE s

RECURSIVE RStrip(_)
RStrip(s) ==
    IF s # <<>> /\ IsSpace(s[Len(s)]) THEN RStrip(SubSeq(s, 1, Len(s) - 1)) ELSE s

\* str.strip()
Strip(s) == RStrip(LStrip(s))

\* str.endswith(suffix)
EndsWith(s, suffix) ==
    /\ Len(suffix) <= Len(s)
    /\ SubSeq(s, Len(s) - Len(suffix) + 1, Len(s)) = suffix

\* position of the first occurrence of character c in s, 0 when there is none
RECURSIVE FindFrom(_, _, _)
FindFrom(s, c, i) ==
    IF i > Len(s) THEN 0 ELSE IF s[i] = c THEN i ELSE FindFrom(s, c, i + 1)

Find(s, c) == FindFrom(s, c, 1)

\* str.split(c): the sequence of the pieces between the occurrences of c
RECURSIVE Split(_, _)
Split(s, c) ==
    LET k == Find(s, c)
    IN IF k = 0 THEN <<s>>
       ELSE <<SubSeq(s, 1, k - 1)>> \o Split(SubSeq(s, k + 1, Len(s)), c)

(***************************************************************************)
(* State.                                                                  *)
(***************************************************************************)
VARIABLES
    con,        \* db._con is set: the process holds its connection
    alumnos,    \* table alumnos: id -> row
    lugares,    \* table lugares: id -> row
    registros,  \* table registros: id -> row
    usuarios,   \* table usuarios: id -> row
    auditoria,  \* table auditoria, in insertion order
    seq,        \* the five sequences: table -> value the next nextval returns
    issued,     \* history: table -> identifiers nextval has returned
    faults,     \* history: storage errors raised so far
    session,    \* st.session_state of the browser session: key -> value
    environ,    \* os.environ: key -> text, NullText when the key is unset
    held_id,    \* new_id of a call of insert_alumno that another thread runs,
                \* between its _next_id and its INSERT; NoId when there is none
    lastOp      \* history: the call made by the last step and its outcome

storeVars == <<con, alumnos, lugares, registros, usuarios, auditoria, seq, issued, faults>>

sessionVars == <<session, environ, held_id>>

vars == <<con, alumnos, lugares, registros, usuarios, auditoria, seq, issued,
          faults, session, environ, held_id, lastOp>>

Tablas == {"alumnos", "lugares", "registros", "auditoria", "usuarios"}

\* the empty table
EmptyTable == [i \in {} |-> NoRow]

\* INSERT of a row under its primary key
InsertRow(table, row) ==
    [i \in DOMAIN table \cup {row.id} |-> IF i = row.id THEN row ELSE table[i]]

\* SELECT COALESCE(MAX(id), 0)
RECURSIVE SetMax(_)
SetMax(S) ==
    IF S = {} THEN 0
    ELSE LET x == CHOOSE y \in S : TRUE
             m == SetMax(S \ {x})
         IN IF x > m THEN x ELSE m

MaxIdOf(table) == SetMax(DOMAIN table)

AuditIds == {auditoria[k].id : k \in 1..Len(auditoria)}

\* the identifiers stored in a table
IdsOf(t) ==
    CASE t = "alumnos" -> DOMAIN alumnos
      [] t = "lugares" -> DOMAIN lugares
      [] t = "registros" -> DOMAIN registros
      [] t = "usuarios" -> DOMAIN usuarios
      [] t = "auditoria" -> AuditIds

\* the record of a call: its name, whether it returned normally, the entity
\* it named or created, the row it read before updating (soft_delete_*,
\* restore_*) and its text argument
Op(op, ok, id, before, arg) ==
    [op |-> op, ok |-> ok, id |-> id, before |-> before, arg |-> arg]

(***************************************************************************)
(* Credential hashing: _pbkdf2_hash, _pbkdf2_verify.  A password is the    *)
(* sequence of its characters.  The derived key is a term over the HMAC    *)
(* key, the salt and the iteration count (PBKDF2-HMAC-SHA256 taken as      *)
(* injective in them); base64 is an encoding with its decoding.            *)
(***************************************************************************)
\* the value os.urandom(16) returns.  No call of the store reads a salt
\* except _pbkdf2_verify, so the store keeps one
Salts == {"s1"}

PBKDF2_ITERATIONS == 100000

\* the character of code 0
chr_0 == "^@"

\* the block size of SHA-256, in bytes
HMAC_BLOCK_SIZE == 64

RECURSIVE RStripZeros(_)
RStripZeros(bytes) ==
    IF bytes = <<>> THEN <<>>
    ELSE IF bytes[Len(bytes)] = chr_0 THEN RStripZeros(SubSeq(bytes, 1, Len(bytes) - 1))
    ELSE bytes

\* the key HMAC works with: a key longer than a block is replaced by its
\* digest, and the key is then filled with zero bytes up to the block size,
\* so that keys that differ in trailing zero bytes are one key
hmac_key(key) ==
    IF Len(key) > HMAC_BLOCK_SIZE THEN [hashed |-> TRUE, bytes |-> key]
    ELSE [hashed |-> FALSE, bytes |-> RStripZeros(key)]

\* hashlib.pbkdf2_hmac('sha256', password, salt, iterations): a digest that
\* is one value for one HMAC key, salt and iteration count, and different
\* values for different ones
pbkdf2_hmac(password, salt, iterations) ==
    [dk |-> "sha256", key |-> hmac_key(password), salt |-> salt, iterations |-> iterations]

b64encode(x) == [b64 |-> x]

b64decode(y) == y.b64

_pbkdf2_hash(password, salt, iterations) ==
    [salt_b64 |-> b64encode(salt),
     iters |-> iterations,
     hash_b64 |-> b64encode(pbkdf2_hmac(password, salt, iterations))]

_pbkdf2_verify(password, salt_b64, iters, hash_b64) ==
    pbkdf2_hmac(password, b64decode(salt_b64), iters) = b64decode(hash_b64)

(***************************************************************************)
(* init_db and _init_sequence.                                             *)
(***************************************************************************)
\* DROP SEQUENCE IF EXISTS; CREATE SEQUENCE ... START MAX(id) + 1
_init_sequence(ids) == SetMax(ids) + 1

t_estudiante == <<"e", "s", "t", "u", "d", "i", "a", "n", "t", "e">>

t_empresa == <<"e", "m", "p", "r", "e", "s", "a">>

t_depto == <<"d", "e", "p", "t", "o">>

t_admin == <<"a", "d", "m", "i", "n">>

\* the demo accounts of init_db, in the order of its loop
SeedUsers ==
    << [uname |-> t_estudiante, role |-> "Estudiante"],
       [uname |-> t_empresa, role |-> "Empresa"],
       [uname |-> t_depto, role |-> "Departamento"],
       [uname |-> t_admin, role |-> "Admin"] >>

SeedPassword == <<"1", "2", "3", "4">>

UsuarioRow(id, username, role, alumno_id, h) ==
    [id |-> id, username |-> username, role |-> role, alumno_id |-> alumno_id,
     salt_b64 |-> h.salt_b64, iters |-> h.iters, hash_b64 |-> h.hash_b64]

\* the rows the seeding loop inserts, the k-th under nextval('seq_usuarios')
SeedRows(start, salts) ==
    [i \in start..(start + Len(SeedUsers) - 1) |->
        UsuarioRow(i, SeedUsers[i - start + 1].uname, SeedUsers[i - start + 1].role,
                   NoId, _pbkdf2_hash(SeedPassword, salts[i - start + 1], PBKDF2_ITERATIONS))]

\* an init_db that inserts the seeds on every run
InitDbSeedsAlways(salts) ==
    LET start == _init_sequence(DOMAIN usuarios)
    IN /\ con' = TRUE
       /\ usuarios' = usuarios @@ SeedRows(start, salts)
       /\ seq' = [alumnos |-> _init_sequence(DOMAIN alumnos),
                  lugares |-> _init_sequence(DOMAIN lugares),
                  registros |-> _init_sequence(DOMAIN registros),
                  auditoria |-> _init_sequence(AuditIds),
                  usuarios |-> start + Len(SeedUsers)]
       /\ issued' = [issued EXCEPT !.usuarios = @ \cup (start..(start + Len(SeedUsers) - 1))]
       /\ UNCHANGED <<alumnos, lugares, registros, auditoria, faults>>

\* init_db(): the tables exist from then on, every sequence is dropped and
\* recreated at MAX(id) + 1, and an empty usuarios table receives the seeds.
\* get_con() runs it when it opens the connection.
InitDbEffect(salts) ==
    LET start == _init_sequence(DOMAIN usuarios)
        seeding == DOMAIN usuarios = {}
    IN /\ con' = TRUE
       /\ usuarios' = IF seeding THEN SeedRows(start, salts) ELSE usuarios
       /\ seq' = [alumnos |-> _init_sequence(DOMAIN alumnos),
                  lugares |-> _init_sequence(DOMAIN lugares),
                  registros |-> _init_sequence(DOMAIN registros),
                  auditoria |-> _init_sequence(AuditIds),
                  usuarios |-> IF seeding THEN start + Len(SeedUsers) ELSE start]
       /\ issued' = IF seeding
                    THEN [issued EXCEPT !.usuarios = @ \cup (start..(start + Len(SeedUsers) - 1))]
                    ELSE issued
       /\ UNCHANGED <<alumnos, lugares, registros, auditoria, faults>>

init_db ==
    \E salts \in [1..Len(SeedUsers) -> Salts] :
        /\ InitDbEffect(salts)
        /\ lastOp' = Op("init_db", TRUE, NoId, NoRow, NullText)
        /\ UNCHANGED sessionVars

(***************************************************************************)
(* _audit and _next_id.                                                    *)
(***************************************************************************)
\* json.dumps of a snapshot dict: an encoding, one text per dict
json_dumps(d) == [json |-> d]

NoJson == [null |-> TRUE]

\* "json.dumps(x) if x else None" of _audit: None and the empty dict give NULL
SnapshotJson(d) == IF d = NoRow THEN NoJson ELSE json_dumps(d)

\* the row _audit inserts; ts (datetime.now()) is not part of the model
AuditEntry(id, accion, tabla, entity_id, before, after, usuario) ==
    [id |-> id, usuario |-> usuario, accion |-> accion, tabla |-> tabla,
     entity_id |-> entity_id,
     before_json |-> SnapshotJson(before), after_json |-> SnapshotJson(after)]

\* whether the INSERT into auditoria raises: a storage error of the engine
\* (falla), or its primary key is already stored
AuditRaises(falla) == falla \/ seq.auditoria \in AuditIds

\* _audit(...): one row appended under nextval('seq_auditoria'), or an error
\* that leaves the table as it was
_audit(falla, accion, tabla, entity_id, before, after, usuario) ==
    auditoria' =
        IF AuditRaises(falla) THEN auditoria
        ELSE Append(auditoria,
                    AuditEntry(seq.auditoria, accion, tabla, entity_id, before, after, usuario))

\* the sequences after a call that drew from sequence t (_next_id) and ran
\* _audit when audited holds
SeqAfter(t, audited, falla) ==
    [x \in Tablas |->
        IF x = t /\ x = "auditoria" THEN seq[x] + (IF audited /\ ~AuditRaises(falla) THEN 1 ELSE 0)
        ELSE IF x = t THEN seq[x] + 1
        ELSE IF x = "auditoria" /\ audited /\ ~AuditRaises(falla) THEN seq[x] + 1
        ELSE seq[x]]

IssuedAfter(t, new_id, audited, falla) ==
    [x \in Tablas |->
        IF x = t THEN issued[x] \cup {new_id}
        ELSE IF x = "auditoria" /\ audited /\ ~AuditRaises(falla)
             THEN issued[x] \cup {seq.auditoria}
        ELSE issued[x]]

\* a call that draws no table identifier and runs _audit
AuditOnlySeq(falla) ==
    [seq EXCEPT !.auditoria = IF AuditRaises(falla) THEN @ ELSE @ + 1]

AuditOnlyIssued(falla) ==
    [issued EXCEPT !.auditoria = IF AuditRaises(falla) THEN @ ELSE @ \cup {seq.auditoria}]

(***************************************************************************)
(* Arguments the calls are made with.                                      *)
(***************************************************************************)
Nombres == {<<"a">>, <<" ", "a">>}

Carreras == {<<"b">>}

NombresLugar == {<<"c", " ">>}

Actividades == {<<"x", " ">>}

Validadores == {<<"v">>, <<" ", "v">>}

Fechas == {1}

\* hours, in hundredths (DECIMAL(10,2))
Horas == {0, 150}

Anios == {2024}

Semestres == {1, 2, 3}

\* the usuario argument: current_user() of the calling page
Usuarios == {t_admin}

\* identifiers a call may name: the stored ones and one that is not
IdArgs == 1..(MaxId + 1)

\* whether the engine raises a storage error in the call's audit write
Fallas == {f \in BOOLEAN : f => faults < MaxFaults}

(***************************************************************************)
(* CRUD alumnos.                                                           *)
(***************************************************************************)
\* a delete that removes the row
SoftDeleteRemoves(table, id) == [i \in DOMAIN table \ {id} |-> table[i]]

\* UPDATE ... SET activo = FALSE WHERE id = ?
SoftDeleteUpdate(table, id) == [table EXCEPT ![id].activo = FALSE]

\* a restore that leaves the row as it is
RestoreUpdateSkipped(table, id) == table

\* UPDATE ... SET activo = TRUE WHERE id = ?
RestoreUpdate(table, id) == [table EXCEPT ![id].activo = TRUE]

AlumnoRow(id, nombre, carrera, activo) ==
    [id |-> id, nombre |-> nombre, carrera |-> carrera, activo |-> activo]

insert_alumno(nombre, carrera, usuario, falla) ==
    /\ con
    /\ faults' = IF falla THEN faults + 1 ELSE faults
    /\ LET new_id == seq.alumnos
           pk == new_id \in DOMAIN alumnos
       IN /\ alumnos' = IF pk THEN alumnos
                        ELSE InsertRow(alumnos, AlumnoRow(new_id, Strip(nombre), Strip(carrera), TRUE))
          /\ IF pk THEN auditoria' = auditoria
             ELSE _audit(falla, "INSERT", "alumnos", new_id, NoRow,
                         AlumnoRow(new_id, nombre, carrera, TRUE), usuario)
          /\ seq' = SeqAfter("alumnos", ~pk, falla)
          /\ issued' = IssuedAfter("alumnos", new_id, ~pk, falla)
          /\ lastOp' = Op("insert_alumno", ~pk /\ ~AuditRaises(falla), new_id, NoRow, NullText)
    /\ UNCHANGED <<con, lugares, registros, usuarios>>
    /\ UNCHANGED sessionVars

soft_delete_alumno(alumno_id, usuario, falla) ==
    /\ con
    /\ faults' = IF falla /\ alumno_id \in DOMAIN alumnos THEN faults + 1 ELSE faults
    /\ IF alumno_id \notin DOMAIN alumnos
       THEN /\ UNCHANGED <<alumnos, auditoria, seq, issued>>
            /\ lastOp' = Op("soft_delete_alumno", TRUE, alumno_id, NoRow, NullText)
       ELSE LET before_d == alumnos[alumno_id]
                after_d == [before_d EXCEPT !.activo = FALSE]
            IN /\ alumnos' = SoftDeleteUpdate(alumnos, alumno_id)
               /\ _audit(falla, "DELETE", "alumnos", alumno_id, before_d, after_d, usuario)
               /\ seq' = AuditOnlySeq(falla)
               /\ issued' = AuditOnlyIssued(falla)
               /\ lastOp' = Op("soft_delete_alumno", ~AuditRaises(falla), alumno_id, before_d, NullText)
    /\ UNCHANGED <<con, lugares, registros, usuarios>>
    /\ UNCHANGED sessionVars

\* restore_alumno without the early return: the UPDATE matches no row and the
\* audit entry is written with no snapshot
restore_alumno_unguarded(alumno_id, usuario, falla) ==
    /\ con
    /\ faults' = IF falla THEN faults + 1 ELSE faults
    /\ alumnos' = IF alumno_id \in DOMAIN alumnos THEN RestoreUpdate(alumnos, alumno_id)
                  ELSE alumnos
    /\ _audit(falla, "UPDATE", "alumnos", alumno_id, NoRow, NoRow, usuario)
    /\ seq' = AuditOnlySeq(falla)
    /\ issued' = AuditOnlyIssued(falla)
    /\ lastOp' = Op("restore_alumno", ~AuditRaises(falla), alumno_id, NoRow, NullText)
    /\ UNCHANGED <<con, lugares, registros, usuarios>>
    /\ UNCHANGED sessionVars

restore_alumno(alumno_id, usuario, falla) ==
    /\ con
    /\ faults' = IF falla /\ alumno_id \in DOMAIN alumnos THEN faults + 1 ELSE faults
    /\ IF alumno_id \notin DOMAIN alumnos
       THEN /\ UNCHANGED <<alumnos, auditoria, seq, issued>>
            /\ lastOp' = Op("restore_alumno", TRUE, alumno_id, NoRow, NullText)
       ELSE LET before_d == alumnos[alumno_id]
                after_d == [before_d EXCEPT !.activo = TRUE]
            IN /\ alumnos' = RestoreUpdate(alumnos, alumno_id)
               /\ _audit(falla, "UPDATE", "alumnos", alumno_id, before_d, after_d, usuario)
               /\ seq' = AuditOnlySeq(falla)
               /\ issued' = AuditOnlyIssued(falla)
               /\ lastOp' = Op("restore_alumno", ~AuditRaises(falla), alumno_id, before_d, NullText)
    /\ UNCHANGED <<con, lugares, registros, usuarios>>
    /\ UNCHANGED sessionVars

(***************************************************************************)
(* CRUD lugares.                                                           *)
(***************************************************************************)
LugarRow(id, nombre, activo) == [id |-> id, nombre |-> nombre, activo |-> activo]

insert_lugar(nombre, usuario, falla) ==
    /\ con
    /\ faults' = IF falla THEN faults + 1 ELSE faults
    /\ LET new_id == seq.lugares
           pk == new_id \in DOMAIN lugares
       IN /\ lugares' = IF pk THEN lugares
                        ELSE InsertRow(lugares, LugarRow(new_id, Strip(nombre), TRUE))
          /\ IF pk THEN auditoria' = auditoria
             ELSE _audit(falla, "INSERT", "lugares", new_id, NoRow,
                         LugarRow(new_id, nombre, TRUE), usuario)
          /\ seq' = SeqAfter("lugares", ~pk, falla)
          /\ issued' = IssuedAfter("lugares", new_id, ~pk, falla)
          /\ lastOp' = Op("insert_lugar", ~pk /\ ~AuditRaises(falla), new_id, NoRow, NullText)
    /\ UNCHANGED <<con, alumnos, registros, usuarios>>
    /\ UNCHANGED sessionVars

soft_delete_lugar(lugar_id, usuario, falla) ==
    /\ con
    /\ faults' = IF falla /\ lugar_id \in DOMAIN lugares THEN faults + 1 ELSE faults
    /\ IF lugar_id \notin DOMAIN lugares
       THEN /\ UNCHANGED <<lugares, auditoria, seq, issued>>
            /\ lastOp' = Op("soft_delete_lugar", TRUE, lugar_id, NoRow, NullText)
       ELSE LET before_d == lugares[lugar_id]
                after_d == [before_d EXCEPT !.activo = FALSE]
            IN /\ lugares' = SoftDeleteUpdate(lugares, lugar_id)
               /\ _audit(falla, "DELETE", "lugares", lugar_id, before_d, after_d, usuario)
               /\ seq' = AuditOnlySeq(falla)
               /\ issued' = AuditOnlyIssued(falla)
               /\ lastOp' = Op("soft_delete_lugar", ~AuditRaises(falla), lugar_id, before_d, NullText)
    /\ UNCHANGED <<con, alumnos, registros, usuarios>>
    /\ UNCHANGED sessionVars

restore_lugar(lugar_id, usuario, falla) ==
    /\ con
    /\ faults' = IF falla /\ lugar_id \in DOMAIN lugares THEN faults + 1 ELSE faults
    /\ IF lugar_id \notin DOMAIN lugares
       THEN /\ UNCHANGED <<lugares, auditoria, seq, issued>>
            /\ lastOp' = Op("restore_lugar", TRUE, lugar_id, NoRow, NullText)
       ELSE LET before_d == lugares[lugar_id]
                after_d == [before_d EXCEPT !.activo = TRUE]
            IN /\ lugares' = RestoreUpdate(lugares, lugar_id)
               /\ _audit(falla, "UPDATE", "lugares", lugar_id, before_d, after_d, usuario)
               /\ seq' = AuditOnlySeq(falla)
               /\ issued' = AuditOnlyIssued(falla)
               /\ lastOp' = Op("restore_lugar", ~AuditRaises(falla), lugar_id, before_d, NullText)
    /\ UNCHANGED <<con, alumnos, registros, usuarios>>
    /\ UNCHANGED sessionVars

(***************************************************************************)
(* Registros.                                                              *)
(***************************************************************************)
\* str(fecha) of a datetime.date, and isoformat() of the pandas Timestamp a
\* DATE column is read back as
StrDate(d) == [text |-> "YYYY-MM-DD", day |-> d]

IsoTimestamp(d) == [text |-> "YYYY-MM-DDT00:00:00", day |-> d]

RegistroRow(id, alumno_id, lugar_id, actividad, fecha, horas, anio, semestre, validado, validador) ==
    [id |-> id, alumno_id |-> alumno_id, lugar_id |-> lugar_id, actividad |-> actividad,
     fecha |-> fecha, horas |-> horas, anio |-> anio, semestre |-> semestre,
     validado |-> validado, validador |-> validador]

\* the arguments of insert_registro that the constraints bear on
RegistroArgs(alumno_id, lugar_id, horas, anio, semestre) ==
    [alumno_id |-> alumno_id, lugar_id |-> lugar_id, horas |-> horas, anio |-> anio,
     semestre |-> semestre]

\* the table without its two CHECKs
RegistroRejectedUnchecked(new_id, alumno_id, lugar_id, horas, semestre) ==
    \/ new_id \in DOMAIN registros
    \/ alumno_id \notin DOMAIN alumnos
    \/ lugar_id \notin DOMAIN lugares

\* the constraints of table registros: the primary key, the two foreign
\* keys and the two CHECKs
RegistroRejected(new_id, alumno_id, lugar_id, horas, semestre) ==
    \/ new_id \in DOMAIN registros
    \/ alumno_id \notin DOMAIN alumnos
    \/ lugar_id \notin DOMAIN lugares
    \/ ~(horas > 0)
    \/ semestre \notin {1, 2}

insert_registro(alumno_id, lugar_id, actividad, fecha, horas, anio, semestre, usuario, falla) ==
    /\ con
    /\ faults' = IF falla /\ ~RegistroRejected(seq.registros, alumno_id, lugar_id, horas, semestre) THEN faults + 1 ELSE faults
    /\ LET new_id == seq.registros
           rejected == RegistroRejected(new_id, alumno_id, lugar_id, horas, semestre)
       IN /\ registros' =
                IF rejected THEN registros
                ELSE InsertRow(registros,
                               RegistroRow(new_id, alumno_id, lugar_id, Strip(actividad), fecha,
                                           horas, anio, semestre, FALSE, NullText))
          /\ IF rejected THEN auditoria' = auditoria
             ELSE _audit(falla, "INSERT", "registros", new_id, NoRow,
                         RegistroRow(new_id, alumno_id, lugar_id, actividad, StrDate(fecha),
                                     horas, anio, semestre, FALSE, NullText),
                         usuario)
          /\ seq' = SeqAfter("registros", ~rejected, falla)
          /\ issued' = IssuedAfter("registros", new_id, ~rejected, falla)
          /\ lastOp' = Op("insert_registro", ~rejected /\ ~AuditRaises(falla), new_id, NoRow,
                           RegistroArgs(alumno_id, lugar_id, horas, anio, semestre))
    /\ UNCHANGED <<con, alumnos, lugares, usuarios>>
    /\ UNCHANGED sessionVars

\* "SELECT * FROM registros WHERE id=?" as the dict of the first row of the
\* DataFrame, after _serialize_for_json; NoRow when the frame is empty
RegistroDict(table, registro_id) ==
    IF registro_id \in DOMAIN table
    THEN [table[registro_id] EXCEPT !.fecha = IsoTimestamp(@)]
    ELSE NoRow

\* an optional argument: None, or Some(v)
None == {}

Some(v) == {v}

\* the columns list_registros selects from the join
ListadoRow(r) ==
    [id |-> r.id, alumno |-> alumnos[r.alumno_id].nombre, lugar |-> lugares[r.lugar_id].nombre,
     actividad |-> r.actividad, fecha |-> r.fecha, horas |-> r.horas, anio |-> r.anio,
     semestre |-> r.semestre, validado |-> r.validado, validador |-> r.validador,
     alumno_id |-> r.alumno_id, lugar_id |-> r.lugar_id]

\* the ordering with the older record first among those of one date
OrderedBeforeOldestFirst(table, i, j) ==
    \/ table[i].fecha > table[j].fecha
    \/ table[i].fecha = table[j].fecha /\ i < j

\* ORDER BY r.fecha DESC, r.id DESC
OrderedBefore(table, i, j) ==
    \/ table[i].fecha > table[j].fecha
    \/ table[i].fecha = table[j].fecha /\ i > j

RECURSIVE OrderBy(_, _)
OrderBy(table, ids) ==
    IF ids = {} THEN <<>>
    ELSE LET first == CHOOSE i \in ids : \A j \in ids \ {i} : OrderedBefore(table, i, j)
         IN <<first>> \o OrderBy(table, ids \ {first})

\* list_registros: the join of registros with alumnos and lugares, under the
\* WHERE terms of the arguments that were given, in the order of ORDER BY
list_registros(pendientes, alumno_id, anio, semestre, incluir_inactivos) ==
    LET joined == {i \in DOMAIN registros : /\ registros[i].alumno_id \in DOMAIN alumnos
                                            /\ registros[i].lugar_id \in DOMAIN lugares}
        where(i) ==
            /\ pendientes => registros[i].validado = FALSE
            /\ alumno_id # None => \A v \in alumno_id : registros[i].alumno_id = v
            /\ anio # None => \A v \in anio : registros[i].anio = v
            /\ semestre # None => \A v \in semestre : registros[i].semestre = v
            /\ ~incluir_inactivos => /\ alumnos[registros[i].alumno_id].activo = TRUE
                                     /\ lugares[registros[i].lugar_id].activo = TRUE
        ordered == OrderBy(registros, {i \in joined : where(i)})
    IN [k \in 1..Len(ordered) |-> ListadoRow(registros[ordered[k]])]

\* SUM(horas) over the rows of ids; COALESCE gives 0 when there is none
RECURSIVE SumHoras(_, _)
SumHoras(table, ids) ==
    IF ids = {} THEN 0
    ELSE LET i == CHOOSE i \in ids : TRUE
         IN table[i].horas + SumHoras(table, ids \ {i})

\* the query joined with the catalogs, counting active students and places only
estado_alumno_solo_activos(alumno_id, anio, semestre) ==
    LET rows == {i \in DOMAIN registros : /\ registros[i].alumno_id = alumno_id
                                          /\ registros[i].anio = anio
                                          /\ registros[i].semestre = semestre
                                          /\ alumnos[registros[i].alumno_id].activo
                                          /\ lugares[registros[i].lugar_id].activo}
    IN [total |-> SumHoras(registros, rows),
        validadas |-> SumHoras(registros, {i \in rows : registros[i].validado})]

\* the query with every selected row counted as validated
estado_alumno_todas_validadas(alumno_id, anio, semestre) ==
    LET rows == {i \in DOMAIN registros : /\ registros[i].alumno_id = alumno_id
                                          /\ registros[i].anio = anio
                                          /\ registros[i].semestre = semestre}
    IN [total |-> SumHoras(registros, rows), validadas |-> SumHoras(registros, rows)]

\* estado_alumno: (total, validadas) of the records of a student, year and term
estado_alumno(alumno_id, anio, semestre) ==
    LET rows == {i \in DOMAIN registros : /\ registros[i].alumno_id = alumno_id
                                          /\ registros[i].anio = anio
                                          /\ registros[i].semestre = semestre}
    IN [total |-> SumHoras(registros, rows),
        validadas |-> SumHoras(registros, {i \in rows : registros[i].validado})]

\* the required hours of the console program
REQUISITO == 5

\* sumar of the console program, over its list of records
RECURSIVE sumar(_, _, _, _)
sumar(lista, alumno_id, sem, solo_val) ==
    IF lista = <<>> THEN 0
    ELSE LET r == Head(lista)
             counted == /\ r.alumno_id = alumno_id /\ r.semestre = sem
                        /\ ((solo_val /\ r.validado = TRUE) \/ solo_val = FALSE)
         IN (IF counted THEN r.horas ELSE 0) + sumar(Tail(lista), alumno_id, sem, solo_val)

\* falta of ver_estado for ok validated hours, in hundredths of an hour
falta(ok) == IF REQUISITO * 100 - ok < 0 THEN 0 ELSE REQUISITO * 100 - ok

\* an UPDATE that sets validado to the opposite of what it was
ValidarUpdateToggles(table, registro_id, validador) ==
    IF registro_id \in DOMAIN table
    THEN [table EXCEPT ![registro_id].validado = ~@,
                       ![registro_id].validador = Strip(validador)]
    ELSE table

\* the UPDATE with the name stored as it was typed
ValidarUpdateUntrimmed(table, registro_id, validador) ==
    IF registro_id \in DOMAIN table
    THEN [table EXCEPT ![registro_id].validado = TRUE,
                       ![registro_id].validador = validador]
    ELSE table

\* UPDATE registros SET validado = TRUE, validador = ? WHERE id = ?
ValidarUpdate(table, registro_id, validador) ==
    IF registro_id \in DOMAIN table
    THEN [table EXCEPT ![registro_id].validado = TRUE,
                       ![registro_id].validador = Strip(validador)]
    ELSE table

validar_registro(registro_id, validador, usuario, falla) ==
    /\ con
    /\ faults' = IF falla THEN faults + 1 ELSE faults
    /\ LET after == ValidarUpdate(registros, registro_id, validador)
       IN /\ registros' = after
          /\ _audit(falla, "VALIDAR", "registros", registro_id,
                    RegistroDict(registros, registro_id), RegistroDict(after, registro_id),
                    usuario)
    /\ seq' = AuditOnlySeq(falla)
    /\ issued' = AuditOnlyIssued(falla)
    /\ lastOp' = Op("validar_registro", ~AuditRaises(falla), registro_id, NoRow, validador)
    /\ UNCHANGED <<con, alumnos, lugares, usuarios>>
    /\ UNCHANGED sessionVars

(***************************************************************************)
(* Usuarios locales.                                                       *)
(***************************************************************************)
\* usernames create_user is called with: a new one, to be trimmed and
\* lowered, and one that the seeds already hold
NewUsernames == {<<"A", "n", "a", " ">>, t_admin}

NewPasswords == {<<"p", "w">>}

Roles == {"Estudiante", "Empresa", "Departamento", "Admin", "Docente"}

Usernames == {usuarios[i].username : i \in DOMAIN usuarios}

\* the constraints of table usuarios: the primary key, UNIQUE(username) and
\* the foreign key to alumnos
UsuarioRejected(new_id, username, alumno_id) ==
    \/ new_id \in DOMAIN usuarios
    \/ username \in Usernames
    \/ (alumno_id # NoId /\ alumno_id \notin DOMAIN alumnos)

create_user(username, password, role, alumno_id, salt, falla) ==
    /\ con
    /\ faults' = IF falla /\ ~UsuarioRejected(seq.usuarios, Lower(Strip(username)), alumno_id) THEN faults + 1 ELSE faults
    /\ LET new_id == seq.usuarios
           h == _pbkdf2_hash(password, salt, PBKDF2_ITERATIONS)
           stored == Lower(Strip(username))
           rejected == UsuarioRejected(new_id, stored, alumno_id)
       IN /\ usuarios' =
                IF rejected THEN usuarios
                ELSE InsertRow(usuarios, UsuarioRow(new_id, stored, role, alumno_id, h))
          /\ IF rejected THEN auditoria' = auditoria
             ELSE _audit(falla, "INSERT", "usuarios", new_id, NoRow,
                         [username |-> username, role |-> role, alumno_id |-> alumno_id],
                         username)
          /\ seq' = SeqAfter("usuarios", ~rejected, falla)
          /\ issued' = IssuedAfter("usuarios", new_id, ~rejected, falla)
          /\ lastOp' = Op("create_user", ~rejected /\ ~AuditRaises(falla), new_id, NoRow, NullText)
    /\ UNCHANGED <<con, alumnos, lugares, registros>>
    /\ UNCHANGED sessionVars

(***************************************************************************)
(* Configuration: os.environ as the modules read it when they are imported *)
(* (st.secrets holds none of the keys, so _get_config is os.getenv).       *)
(***************************************************************************)
EnvKeys == {"MICROSOFT_ADMIN_STUDENTS", "AZURE_CLIENT_ID", "AZURE_CLIENT_SECRET"}

EnvUnset == [k \in EnvKeys |-> NullText]

\* os.getenv(key, default)
getenv(key, default) == IF environ[key] = NullText THEN default ELSE environ[key]

_get_config(key, default) == getenv(key, default)

\* Python's truth value of an optional text
Truthy(x) == x # NullText /\ x # <<>>

CLIENT_ID == _get_config("AZURE_CLIENT_ID", <<>>)

CLIENT_SECRET == _get_config("AZURE_CLIENT_SECRET", <<>>)

t_dominio == <<"@", "u", "v", "g", ".", "e", "d", "u", ".", "g", "t">>

DOMINIOS_PERMITIDOS == {t_dominio}

t_25837 == <<"2", "5", "8", "3", "7">>

\* the elements of a sequence
Range(q) == {q[i] : i \in 1..Len(q)}

DEFAULT_ADMIN_STUDENTS ==
    {x \in Range(Split(_get_config("MICROSOFT_ADMIN_STUDENTS", t_25837), ",")) : x # <<>>}

(***************************************************************************)
(* st.session_state: a function from the keys that are set to their values.*)
(***************************************************************************)
Has(s, k) == k \in DOMAIN s

\* st.session_state.get(k, default)
Get(s, k, default) == IF k \in DOMAIN s THEN s[k] ELSE default

\* st.session_state[k] = v
Put(s, k, v) == [x \in DOMAIN s \cup {k} |-> IF x = k THEN v ELSE s[x]]

\* del st.session_state[k]
Del(s, k) == [x \in DOMAIN s \ {k} |-> s[x]]

SESSION_KEYS == <<"auth", "user", "role", "alumno_id">>

is_logged(s) == Get(s, "auth", FALSE)

current_role(s) == Get(s, "role", "")

\* a has_role that looks at the role alone
has_role_unchecked(s, roles) == current_role(s) \in roles

has_role(s, roles) == IF ~is_logged(s) THEN FALSE ELSE current_role(s) \in roles

\* a check that looks for the domain anywhere in the address
validar_dominio_contains(email) ==
    IF ~Truthy(email) THEN FALSE
    ELSE \E dominio \in DOMINIOS_PERMITIDOS :
            \E i \in 1..Len(email) :
                /\ i + Len(dominio) - 1 <= Len(email)
                /\ SubSeq(Lower(email), i, i + Len(dominio) - 1) = dominio

validar_dominio(email) ==
    IF ~Truthy(email) THEN FALSE
    ELSE \E dominio \in DOMINIOS_PERMITIDOS : EndsWith(Lower(email), dominio)

\* the number of leading characters of s in [a-zA-Z]
RECURSIVE LettersPrefixLen(_)
LettersPrefixLen(s) ==
    IF s # <<>> /\ IsLetter(Head(s)) THEN 1 + LettersPrefixLen(Tail(s)) ELSE 0

AllDigits(s) == \A i \in 1..Len(s) : IsDigit(s[i])

\* re.fullmatch(r'([a-zA-Z]+)(2\d+)', local): group 2, NullText for no match
MatchStudent(local) ==
    LET k == LettersPrefixLen(local)
        rest == SubSeq(local, k + 1, Len(local))
    IN IF k >= 1 /\ Len(rest) >= 2 /\ rest[1] = "2" /\ AllDigits(rest)
       THEN rest ELSE NullText

\* re.fullmatch(r'[a-zA-Z]+', local)
MatchLetters(local) == Len(local) >= 1 /\ \A i \in 1..Len(local) : IsLetter(local[i])

\* the admin set a session works with: the stored one, or the default that
\* get_admin_students stores on first use
AdminStudents(s) == Get(s, "microsoft_admin_students", DEFAULT_ADMIN_STUDENTS)

get_admin_students(s) == Put(s, "microsoft_admin_students", AdminStudents(s))

\* a derivation that never consults the admin set
determinar_rol_sin_admins(s, email) ==
    IF ~Truthy(email) THEN "Estudiante"
    ELSE LET local == Head(Split(Lower(email), "@"))
         IN IF MatchStudent(local) # NullText THEN "Estudiante"
            ELSE IF MatchLetters(local) THEN "Docente" ELSE "Estudiante"

determinar_rol(s, email) ==
    IF ~Truthy(email) THEN "Estudiante"
    ELSE LET local == Head(Split(Lower(email), "@"))
             student_id == MatchStudent(local)
         IN IF student_id # NullText
            THEN (IF student_id \in AdminStudents(s) THEN "Admin" ELSE "Estudiante")
            ELSE IF MatchLetters(local) THEN "Docente" ELSE "Estudiante"

\* s.startswith("2") or else "2" + s
WithPrefix2(digits) == IF Head(digits) = "2" THEN digits ELSE <<"2">> \o digits

_normalize_student_id_from_input(value) ==
    IF ~Truthy(value) THEN NullText
    ELSE LET v == Lower(Strip(value))
         IN IF Find(v, "@") # 0
            THEN LET local == SubSeq(v, 1, Find(v, "@") - 1)
                 IN IF MatchStudent(local) # NullText THEN MatchStudent(local)
                    ELSE IF Len(local) >= 1 /\ AllDigits(local) THEN WithPrefix2(local)
                    ELSE NullText
            ELSE LET digits == SelectSeq(v, IsDigit)
                 IN IF digits # <<>> THEN WithPrefix2(digits)
                    ELSE MatchStudent(v)

\* the loop of add_admins_from_codes over its codes
RECURSIVE AddCodes(_, _)
AddCodes(admins, codes) ==
    IF codes = <<>> THEN admins
    ELSE LET sid == _normalize_student_id_from_input(Head(codes))
         IN AddCodes(IF Truthy(sid) /\ sid \notin admins THEN admins \cup {sid} ELSE admins,
                     Tail(codes))

add_admins_from_codes(s, codes) ==
    Put(s, "microsoft_admin_students", AddCodes(AdminStudents(s), codes))

(***************************************************************************)
(* Local and federated login, logout.                                       *)
(***************************************************************************)
\* verify_user: the row of the user as a dict, NoRow for None
verify_user(table, username, password) ==
    LET rows == {i \in DOMAIN table : table[i].username = Lower(Strip(username))}
    IN IF rows = {} THEN NoRow
       ELSE LET row == table[CHOOSE i \in rows : TRUE]
            IN IF ~_pbkdf2_verify(password, row.salt_b64, row.iters, row.hash_b64)
               THEN NoRow
               ELSE [id |-> row.id, username |-> row.username, role |-> row.role,
                     alumno_id |-> row.alumno_id]

\* a login that records its failure in the session
login_marking_failure(s, info) ==
    IF info = NoRow THEN Put(s, "auth", FALSE)
    ELSE Put(Put(Put(Put(s, "auth", TRUE), "user", info.username), "role", info.role),
             "alumno_id", info.alumno_id)

\* login: the session it leaves, given what verify_user returned
login(s, info) ==
    IF info = NoRow THEN s
    ELSE Put(Put(Put(Put(s, "auth", TRUE), "user", info.username), "role", info.role),
             "alumno_id", info.alumno_id)

\* the loop of logout over the keys it deletes
RECURSIVE DelKeys(_, _)
DelKeys(s, keys) == IF keys = <<>> THEN s ELSE DelKeys(Del(s, Head(keys)), Tail(keys))

logout(s) == DelKeys(s, SESSION_KEYS)

\* get_auth_url and render_microsoft_login_button: the keys they write; the
\* random state and code verifier are one token each
render_microsoft_login_button(s) ==
    IF ~Truthy(CLIENT_ID) THEN s
    ELSE LET s1 == Put(s, "ms_oauth_state", <<"r">>)
             s2 == IF ~Truthy(CLIENT_SECRET) THEN Put(s1, "ms_code_verifier", <<"r">>) ELSE s1
         IN Put(s2, "ms_popup_login", TRUE)

\* what the identity provider answers to a callback: no token, a token but
\* no profile, or the profile's mail, userPrincipalName and displayName
t_alumno == <<"a", "2", "5", "8", "3", "7">> \o t_dominio

t_ALUMNO == <<"B", "2", "6", "@", "U", "V", "G", ".", "E", "D", "U", ".", "G", "T">>

t_docente == <<"d", "o", "c">> \o t_dominio

t_ajeno == <<"a", "2", "5", "8", "3", "7">> \o t_dominio \o <<".", "c", "o">>

t_corto == <<"a", "2", "5", "8", "3", "7", "@", "u", "v", "g", ".", "e", "d", "u">>

Answer(token, graph, mail, upn, name) ==
    [token |-> token, graph |-> graph, mail |-> mail, userPrincipalName |-> upn,
     displayName |-> name]

Answers ==
    {Answer(FALSE, FALSE, NullText, NullText, "-"),
     Answer(TRUE, FALSE, NullText, NullText, "-"),
     Answer(TRUE, TRUE, t_alumno, t_alumno, "Ana"),
     Answer(TRUE, TRUE, t_ALUMNO, t_ALUMNO, "Beto"),
     Answer(TRUE, TRUE, NullText, t_docente, "Doc"),
     Answer(TRUE, TRUE, t_ajeno, t_alumno, "Eva"),
     Answer(TRUE, TRUE, t_corto, t_corto, "Cora"),
     Answer(TRUE, TRUE, NullText, <<>>, "Nadie")}

\* user_info.get("mail") or user_info.get("userPrincipalName", "")
EmailOf(user_info) ==
    IF Truthy(user_info.mail) THEN user_info.mail ELSE user_info.userPrincipalName

\* microsoft_login_flow, lines 262-276: the session of an accepted identity
FlowSession(s, email, display_name) ==
    LET s1 == Put(Put(Put(Put(s, "auth", TRUE), "user", email),
                      "display_name", display_name), "email", email)
        s2 == Put(s1, "role", determinar_rol(s1, email))
        s3 == Put(Put(s2, "auth_method", "Microsoft"), "alumno_id", NoId)
    IN Del(get_admin_students(s3), "ms_popup_login")

(***************************************************************************)
(* Page 0_Inicio.py.  Every run of the script adds the administrators of   *)
(* the environment and calls init_db before it looks at the session.       *)
(***************************************************************************)
\* the names utils/microsoft_auth.py defines
MicrosoftAuthNames ==
    {"_get_config", "_generate_pkce_pair", "get_auth_url", "exchange_code_for_token",
     "get_user_info", "validar_dominio", "determinar_rol", "get_admin_students",
     "microsoft_login_flow", "render_microsoft_login_button",
     "_normalize_student_id_from_input", "add_admins_from_codes", "add_admin_from_code"}

Inicio_MICROSOFT_AVAILABLE ==
    {"microsoft_login_flow", "render_microsoft_login_button", "add_admins_from_codes"}
        \subseteq MicrosoftAuthNames

NonEmpty(x) == x # <<>>

\* lines 19-25
InicioAdmins(s) ==
    LET admins_env == getenv("MICROSOFT_ADMIN_STUDENTS", <<>>)
        pieces == Split(admins_env, ",")
        codes == SelectSeq([i \in 1..Len(pieces) |-> Strip(pieces[i])], NonEmpty)
    IN IF Inicio_MICROSOFT_AVAILABLE /\ Truthy(admins_env)
       THEN add_admins_from_codes(s, codes) ELSE s

\* a run of the script with no widget event and no code in the URL, as
\* st.rerun() starts it
InicioView(s) ==
    LET s1 == InicioAdmins(s)
    IN IF is_logged(s1) \/ ~Inicio_MICROSOFT_AVAILABLE THEN s1
       ELSE render_microsoft_login_button(s1)

\* the page is opened
Inicio ==
    /\ \E salts \in [1..Len(SeedUsers) -> Salts] : InitDbEffect(salts)
    /\ session' = InicioView(session)
    /\ lastOp' = Op("Inicio", TRUE, NoId, NoRow, NullText)
    /\ UNCHANGED <<environ, held_id>>

\* the page is opened by the provider's redirect, ?code=... in the URL
Inicio_callback(answer) ==
    /\ \E salts \in [1..Len(SeedUsers) -> Salts] : InitDbEffect(salts)
    /\ LET s1 == InicioAdmins(session)
           email == EmailOf(answer)
       IN IF is_logged(s1)
          THEN /\ session' = s1
               /\ lastOp' = Op("Inicio", TRUE, NoId, NoRow, NullText)
          ELSE IF ~(answer.token /\ answer.graph)
          THEN /\ session' = render_microsoft_login_button(s1)
               /\ lastOp' = Op("microsoft_login_flow", FALSE, NoId, NoRow, NullText)
          ELSE IF ~validar_dominio(email)
          THEN /\ session' = s1
               /\ lastOp' = Op("microsoft_login_flow", FALSE, NoId, NoRow, email)
          ELSE /\ session' = InicioView(FlowSession(s1, email, answer.displayName))
               /\ lastOp' = Op("microsoft_login_flow", TRUE, NoId, NoRow, email)
    /\ UNCHANGED <<environ, held_id>>

\* the login form is submitted
Inicio_login(u, p) ==
    /\ ~is_logged(session)
    /\ \E salts \in [1..Len(SeedUsers) -> Salts] : InitDbEffect(salts)
    /\ LET s1 == render_microsoft_login_button(InicioAdmins(session))
           info == verify_user(usuarios', u, p)
       IN /\ session' = IF info = NoRow THEN s1 ELSE InicioView(login(s1, info))
          /\ lastOp' = Op("login", info # NoRow, IF info = NoRow THEN NoId ELSE info.id,
                          NoRow, u)
    /\ UNCHANGED <<environ, held_id>>

\* a logout button of the page is pressed
Inicio_logout ==
    /\ is_logged(session)
    /\ \E salts \in [1..Len(SeedUsers) -> Salts] : InitDbEffect(salts)
    /\ session' = InicioView(logout(InicioAdmins(session)))
    /\ lastOp' = Op("Inicio_logout", TRUE, NoId, NoRow, NullText)
    /\ UNCHANGED <<environ, held_id>>

(***************************************************************************)
(* Page pages/5_Administradores.py.  Its import names functions that       *)
(* utils/microsoft_auth.py does not define, so the import raises           *)
(* ImportError and the page stops before it shows the admin set.           *)
(***************************************************************************)
Administradores_MICROSOFT_AVAILABLE ==
    {"get_admin_list", "add_admin_from_code", "remove_admin_by_code", "is_current_user_admin"}
        \subseteq MicrosoftAuthNames

\* the first position at or after i where "2" and a digit follow, 0 for none
RECURSIVE SearchFrom(_, _)
SearchFrom(s, i) ==
    IF i + 1 > Len(s) THEN 0
    ELSE IF s[i] = "2" /\ IsDigit(s[i + 1]) THEN i ELSE SearchFrom(s, i + 1)

\* the last position of the run of digits that starts at i
RECURSIVE DigitsEnd(_, _)
DigitsEnd(s, i) == IF i + 1 <= Len(s) /\ IsDigit(s[i + 1]) THEN DigitsEnd(s, i + 1) ELSE i

\* re.search(r'(2\d+)', current_email): group 1, NullText for no match
SearchCode(current_email) ==
    LET i == SearchFrom(current_email, 1)
    IN IF i = 0 THEN NullText ELSE SubSeq(current_email, i, DigitsEnd(current_email, i))

\* the removal the page asks of utils/microsoft_auth.py
remove_admin_by_code(s, code) ==
    Put(s, "microsoft_admin_students", AdminStudents(s) \ {code})

add_admin_from_code(s, code) == add_admins_from_codes(s, <<code>>)

\* the requests made of the page: to show it, to remove a code of the list,
\* to add the code typed in the form
Requests == {"Administradores", "remove_admin", "add_admin"}

AdminCodes == {t_25837, <<"2", "6">>}

\* lines 23-35, and 76-89 and 100-124 behind them
Administradores(request, code) ==
    /\ LET current_code == SearchCode(Get(session, "email", <<>>))
           digits == SelectSeq(code, IsDigit)
           stopped == \/ ~is_logged(session)
                      \/ ~has_role(session, {"Admin"})
                      \/ ~Administradores_MICROSOFT_AVAILABLE
       IN /\ session' =
                IF stopped THEN session
                ELSE IF request = "remove_admin" /\ code \in AdminStudents(session)
                                                  /\ code # current_code
                THEN remove_admin_by_code(session, code)
                ELSE IF request = "add_admin" /\ digits # <<>>
                THEN add_admin_from_code(session, WithPrefix2(digits))
                ELSE session
          /\ lastOp' = Op(request, ~stopped, NoId, NoRow,
                          IF request = "Administradores" THEN NullText ELSE code)
    /\ UNCHANGED storeVars
    /\ UNCHANGED <<environ, held_id>>

\* the logout button of the sidebar is pressed on the page: logout() and a
\* rerun that stops at require_login
Administradores_logout ==
    /\ is_logged(session)
    /\ session' = logout(session)
    /\ lastOp' = Op("logout", TRUE, NoId, NoRow, NullText)
    /\ UNCHANGED storeVars
    /\ UNCHANGED <<environ, held_id>>

(***************************************************************************)
(* Pages 1_Alumnos.py, 2_Lugares.py, 3_Registros.py and 4_Validacion.py:   *)
(* one run of the script for the widget event named, behind render_userbox *)
(* and require_login.                                                      *)
(***************************************************************************)
current_user(s) == Get(s, "user", <<>>)

current_alumno_id(s) == Get(s, "alumno_id", NoId)

\* the ids of the frame list_alumnos returns
list_alumnos(incluir_inactivos) ==
    IF incluir_inactivos THEN DOMAIN alumnos ELSE {i \in DOMAIN alumnos : alumnos[i].activo}

list_lugares(incluir_inactivos) ==
    IF incluir_inactivos THEN DOMAIN lugares ELSE {i \in DOMAIN lugares : lugares[i].activo}

\* the run ends at st.stop(), at a warning, or with nothing selected: the
\* store and the session stay as they are
PageStops(page) ==
    /\ lastOp' = Op(page, FALSE, NoId, NoRow, NullText)
    /\ UNCHANGED storeVars
    /\ UNCHANGED sessionVars

\* 1_Alumnos.py, lines 11-29: the form is submitted
Alumnos_agregar(nombre, carrera) ==
    IF ~is_logged(session) \/ nombre = <<>> \/ carrera = <<>>
    THEN PageStops("Alumnos")
    ELSE insert_alumno(nombre, carrera, current_user(session), FALSE)

\* lines 34-51: one id of the listed active rows is selected and deactivated
Alumnos_desactivar(mostrar_inactivos, i) ==
    IF \/ ~is_logged(session)
       \/ i \notin {j \in list_alumnos(mostrar_inactivos) : alumnos[j].activo = TRUE}
    THEN PageStops("Alumnos")
    ELSE soft_delete_alumno(i, current_user(session), FALSE)

\* lines 52-61: one id of the listed inactive rows is selected and restored
Alumnos_restaurar(mostrar_inactivos, i) ==
    IF \/ ~is_logged(session)
       \/ i \notin {j \in list_alumnos(mostrar_inactivos) : alumnos[j].activo = FALSE}
    THEN PageStops("Alumnos")
    ELSE restore_alumno(i, current_user(session), FALSE)

\* 2_Lugares.py, lines 11-24
Lugares_agregar(nombre) ==
    IF ~is_logged(session) \/ nombre = <<>>
    THEN PageStops("Lugares")
    ELSE insert_lugar(nombre, current_user(session), FALSE)

\* lines 28-45
Lugares_desactivar(mostrar_inactivos, i) ==
    IF \/ ~is_logged(session)
       \/ i \notin {j \in list_lugares(mostrar_inactivos) : lugares[j].activo = TRUE}
    THEN PageStops("Lugares")
    ELSE soft_delete_lugar(i, current_user(session), FALSE)

\* lines 46-55
Lugares_restaurar(mostrar_inactivos, i) ==
    IF \/ ~is_logged(session)
       \/ i \notin {j \in list_lugares(mostrar_inactivos) : lugares[j].activo = FALSE}
    THEN PageStops("Lugares")
    ELSE restore_lugar(i, current_user(session), FALSE)

\* 3_Registros.py, lines 12-71: the form is submitted with a student and a
\* place picked in its two select boxes
Registros_agregar(alumno_row, lugar_row, actividad, fecha, horas, anio, semestre) ==
    LET rol == current_role(session)
        aid == current_alumno_id(session)
        alumno_id == IF rol = "Estudiante" THEN aid ELSE alumno_row
    IN IF \/ ~is_logged(session)
          \/ list_alumnos(FALSE) = {} \/ list_lugares(FALSE) = {}
          \/ rol = "Estudiante" /\ aid = NoId
          \/ rol # "Estudiante" /\ alumno_row \notin list_alumnos(FALSE)
          \/ lugar_row \notin list_lugares(FALSE)
          \/ actividad = <<>>
          \/ horas <= 0
       THEN PageStops("Registros")
       ELSE insert_registro(alumno_id, lugar_row, actividad, fecha, horas, anio, semestre,
                            current_user(session), FALSE)

DecimalDigits == <<"0", "1", "2", "3", "4", "5", "6", "7", "8", "9">>

\* str(v) of None or of a natural number
RECURSIVE str(_)
str(v) ==
    IF v = NoId THEN <<"N", "o", "n", "e">>
    ELSE IF v < 10 THEN <<DecimalDigits[v + 1]>>
    ELSE str(v \div 10) \o <<DecimalDigits[(v % 10) + 1]>>

\* int(text) raises ValueError unless the text is a run of digits
IntRaises(text) == text = <<>> \/ ~AllDigits(text)

RECURSIVE int(_)
int(text) ==
    IF text = <<>> THEN 0
    ELSE 10 * int(SubSeq(text, 1, Len(text) - 1))
           + (CHOOSE d \in 0..9 : DecimalDigits[d + 1] = text[Len(text)])

t_Todos == <<"T", "o", "d", "o", "s">>

\* lines 12-31 and 75-99: what the run of the script does with the listing;
\* sel_al_box is the choice in the select box of a role other than
\* Estudiante, sel_sem the label of the option chosen among "-", 1 and 2
Registros_listado(s, show_pend, sel_al_box, sel_anio, sel_sem) ==
    LET catalogs == list_alumnos(FALSE) # {} /\ list_lugares(FALSE) # {}
        stopped == \/ ~is_logged(s)
                   \/ catalogs /\ current_role(s) = "Estudiante" /\ current_alumno_id(s) = NoId
        sel_al == IF current_role(s) = "Estudiante" THEN str(current_alumno_id(s))
                  ELSE IF list_alumnos(FALSE) # {} THEN sel_al_box ELSE t_Todos
        raises == sel_al # t_Todos /\ IntRaises(sel_al)
    IN [stopped |-> stopped,
        raises |-> ~stopped /\ raises,
        pendientes |-> show_pend,
        alumno_id |-> IF sel_al = t_Todos \/ raises THEN None ELSE Some(int(sel_al)),
        anio |-> IF sel_anio # 0 THEN Some(sel_anio) ELSE None,
        semestre |-> IF sel_sem # <<"-">> THEN Some(int(sel_sem)) ELSE None]

\* the page is opened or one of its filters is changed
Registros(show_pend, sel_al_box, sel_anio, sel_sem) ==
    /\ sel_al_box = t_Todos \/ \E i \in list_alumnos(FALSE) : sel_al_box = str(i)
    /\ LET r == Registros_listado(session, show_pend, sel_al_box, sel_anio, sel_sem)
       IN lastOp' = Op("Registros_listado", ~r.stopped /\ ~r.raises, NoId, NoRow, r)
    /\ UNCHANGED storeVars
    /\ UNCHANGED sessionVars

\* the ids of the pending records 4_Validacion.py lists
Validacion_pend ==
    LET pend == list_registros(TRUE, None, None, None, FALSE)
    IN {pend[k].id : k \in 1..Len(pend)}

\* the page with require_login alone
Validacion_validar_sin_rol(rid, validador) ==
    IF ~is_logged(session) \/ rid \notin Validacion_pend
    THEN PageStops("Validacion")
    ELSE validar_registro(rid, validador, NullText, FALSE)

\* 4_Validacion.py, lines 12-36: one listed id is selected and validated
\* under the name typed in the box
Validacion_validar(rid, validador) ==
    IF \/ ~is_logged(session)
       \/ ~has_role(session, {"Empresa", "Departamento", "Admin"})
       \/ rid \notin Validacion_pend
    THEN PageStops("Validacion")
    ELSE validar_registro(rid, validador, NullText, FALSE)

(***************************************************************************)
(* The store: the state before the process opens its connection to an      *)
(* empty database file, and the calls made on it.                          *)
(***************************************************************************)
EmptySession == [k \in {} |-> FALSE]

Init ==
    /\ con = FALSE
    /\ alumnos = EmptyTable
    /\ lugares = EmptyTable
    /\ registros = EmptyTable
    /\ usuarios = EmptyTable
    /\ auditoria = <<>>
    /\ seq = [t \in Tablas |-> 1]
    /\ issued = [t \in Tablas |-> {}]
    /\ faults = 0
    /\ session = EmptySession
    /\ environ = EnvUnset
    /\ held_id = NoId
    /\ lastOp = Op("start", TRUE, NoId, NoRow, NullText)

\* the calls on the catalogs, while the audit log is shorter than maxAudit
CatalogCalls(maxAudit) ==
    \/ /\ seq.alumnos <= MaxId /\ Len(auditoria) < maxAudit
       /\ \E n \in Nombres, c \in Carreras, u \in Usuarios, f \in Fallas :
              insert_alumno(n, c, u, f)
    \/ /\ Len(auditoria) < maxAudit
       /\ \E i \in IdArgs, u \in Usuarios, f \in Fallas : soft_delete_alumno(i, u, f)
    \/ /\ Len(auditoria) < maxAudit
       /\ \E i \in IdArgs, u \in Usuarios, f \in Fallas : restore_alumno(i, u, f)
    \/ /\ seq.lugares <= MaxId /\ Len(auditoria) < maxAudit
       /\ \E n \in NombresLugar, u \in Usuarios, f \in Fallas : insert_lugar(n, u, f)
    \/ /\ Len(auditoria) < maxAudit
       /\ \E i \in IdArgs, u \in Usuarios, f \in Fallas : soft_delete_lugar(i, u, f)
    \/ /\ Len(auditoria) < maxAudit
       /\ \E i \in IdArgs, u \in Usuarios, f \in Fallas : restore_lugar(i, u, f)

\* the calls on the records and the local users
RecordCalls(maxAudit) ==
    \/ /\ seq.registros <= MaxId /\ Len(auditoria) < maxAudit
       /\ \E a \in IdArgs, l \in IdArgs, act \in Actividades, d \in Fechas, h \in Horas,
             y \in Anios, s \in Semestres, u \in Usuarios, f \in Fallas :
              insert_registro(a, l, act, d, h, y, s, u, f)
    \/ /\ Len(auditoria) < maxAudit
       /\ \E i \in IdArgs, v \in Validadores, u \in Usuarios, f \in Fallas :
              validar_registro(i, v, u, f)
    \/ /\ seq.usuarios <= MaxUsuarioId /\ Len(auditoria) < maxAudit
       /\ \E n \in NewUsernames, p \in NewPasswords, r \in {"Estudiante"},
             a \in {NoId, 1}, s \in Salts, f \in Fallas :
              create_user(n, p, r, a, s, f)

\* The store under every call of utils/db.py.
Next ==
    \/ init_db
    \/ CatalogCalls(MaxAudit)
    \/ RecordCalls(MaxAudit)

Spec == Init /\ [][Next]_vars

\* The store under init_db and the calls on alumnos and lugares.
NextCatalogo ==
    \/ init_db
    \/ CatalogCalls(MaxAuditCatalogo)

SpecCatalogo == Init /\ [][NextCatalogo]_vars

(***************************************************************************)
(* A browser session on the pages Inicio and Administradores, under each   *)
(* configuration of the environment.                                       *)
(***************************************************************************)
Environ(admins, client_id, client_secret) ==
    [k \in EnvKeys |->
        CASE k = "MICROSOFT_ADMIN_STUDENTS" -> admins
          [] k = "AZURE_CLIENT_ID" -> client_id
          [] k = "AZURE_CLIENT_SECRET" -> client_secret]

\* values of MICROSOFT_ADMIN_STUDENTS: unset, one code, a code without its
\* leading 2, two codes written with a space after the comma
AdminEnvs ==
    {NullText, <<"2", "6">>, <<"6">>, t_25837 \o <<",", " ", "2", "6">>}

Environs ==
    {Environ(a, c[1], c[2]) :
        a \in AdminEnvs,
        c \in {<<NullText, NullText>>, <<<<"i">>, NullText>>, <<<<"i">>, <<"s">>>>}}

InitSession ==
    /\ con = FALSE
    /\ alumnos = EmptyTable
    /\ lugares = EmptyTable
    /\ registros = EmptyTable
    /\ usuarios = EmptyTable
    /\ auditoria = <<>>
    /\ seq = [t \in Tablas |-> 1]
    /\ issued = [t \in Tablas |-> {}]
    /\ faults = 0
    /\ session = EmptySession
    /\ environ \in Environs
    /\ held_id = NoId
    /\ lastOp = Op("start", TRUE, NoId, NoRow, NullText)

\* what is typed in the login form
LoginUsers == {t_admin, <<" ", "A", "d", "m", "i", "n">>, t_estudiante, <<"x">>}

LoginPasswords == {SeedPassword, <<"x">>}

NextSession ==
    \/ Inicio
    \/ \E answer \in Answers : Inicio_callback(answer)
    \/ \E u \in LoginUsers, p \in LoginPasswords : Inicio_login(u, p)
    \/ Inicio_logout
    \/ \E r \in Requests, c \in AdminCodes : Administradores(r, c)
    \/ Administradores_logout

SpecSession == InitSession /\ [][NextSession]_vars

(***************************************************************************)
(* The store under the calls that make and validate records, on catalogs   *)
(* of few rows.                                                            *)
(***************************************************************************)
\* what insert_registro is called with: an acceptable record, one of another
\* year and term with more hours than the requirement, and one that breaks
\* each constraint in turn
RegistrosAceptables ==
    {RegistroArgs(1, 1, 150, 2024, 1), RegistroArgs(1, 1, 600, 2025, 2)}

RegistrosArgs ==
    RegistrosAceptables \cup
    {RegistroArgs(1, 1, 0, 2024, 1), RegistroArgs(1, 1, 150, 2024, 3),
     RegistroArgs(MaxCatalogo + 1, 1, 150, 2024, 1),
     RegistroArgs(1, MaxCatalogo + 1, 150, 2024, 1)}

\* the dates of the records that are listed, as day numbers
FechasRegistros == {1, 2}

NextRegistros ==
    \/ init_db
    \/ /\ seq.alumnos <= MaxCatalogo /\ Len(auditoria) < MaxAuditRegistros
       /\ insert_alumno(<<" ", "a">>, <<"b">>, t_admin, FALSE)
    \/ /\ seq.lugares <= MaxCatalogo /\ Len(auditoria) < MaxAuditRegistros
       /\ insert_lugar(<<"c", " ">>, t_admin, FALSE)
    \/ /\ 1 \in DOMAIN alumnos /\ Len(auditoria) < MaxAuditRegistros
       /\ soft_delete_alumno(1, t_admin, FALSE)
    \/ /\ 1 \in DOMAIN alumnos /\ Len(auditoria) < MaxAuditRegistros
       /\ restore_alumno(1, t_admin, FALSE)
    \/ /\ 1 \in DOMAIN lugares /\ Len(auditoria) < MaxAuditRegistros
       /\ soft_delete_lugar(1, t_admin, FALSE)
    \/ /\ 1 \in DOMAIN lugares /\ Len(auditoria) < MaxAuditRegistros
       /\ restore_lugar(1, t_admin, FALSE)
    \/ /\ seq.registros <= MaxRegistros /\ Len(auditoria) < MaxAuditRegistros
       /\ \E r \in RegistrosArgs :
              insert_registro(r.alumno_id, r.lugar_id, <<"x", " ">>, 1, r.horas, r.anio,
                              r.semestre, t_admin, FALSE)
    \/ /\ Len(auditoria) < MaxAuditRegistros
       /\ \E i \in DOMAIN registros :
              validar_registro(i, <<" ", "v">>, t_admin, FALSE)

SpecRegistros == Init /\ [][NextRegistros]_vars

(***************************************************************************)
(* The store under every function that writes to it, each on the first     *)
(* row of its table.                                                       *)
(***************************************************************************)
NextAlmacen ==
    \/ init_db
    \/ /\ seq.alumnos <= MaxCatalogo /\ Len(auditoria) < MaxAuditAlmacen
       /\ insert_alumno(<<" ", "a">>, <<"b">>, t_admin, FALSE)
    \/ /\ seq.lugares <= MaxCatalogo /\ Len(auditoria) < MaxAuditAlmacen
       /\ insert_lugar(<<"c", " ">>, t_admin, FALSE)
    \/ /\ 1 \in DOMAIN alumnos /\ Len(auditoria) < MaxAuditAlmacen
       /\ soft_delete_alumno(1, t_admin, FALSE)
    \/ /\ 1 \in DOMAIN alumnos /\ Len(auditoria) < MaxAuditAlmacen
       /\ restore_alumno(1, t_admin, FALSE)
    \/ /\ 1 \in DOMAIN lugares /\ Len(auditoria) < MaxAuditAlmacen
       /\ soft_delete_lugar(1, t_admin, FALSE)
    \/ /\ 1 \in DOMAIN lugares /\ Len(auditoria) < MaxAuditAlmacen
       /\ restore_lugar(1, t_admin, FALSE)
    \/ /\ seq.registros <= MaxCatalogo /\ Len(auditoria) < MaxAuditAlmacen
       /\ insert_registro(1, 1, <<"x", " ">>, 1, 150, 2024, 1, t_admin, FALSE)
    \/ /\ Len(auditoria) < MaxAuditAlmacen
       /\ \E i \in DOMAIN registros : validar_registro(i, <<" ", "v">>, t_admin, FALSE)
    \/ /\ seq.usuarios <= MaxUsuarioId /\ Len(auditoria) < MaxAuditAlmacen
       /\ \E n \in NewUsernames :
              create_user(n, <<"p", "w">>, "Estudiante", NoId, "s1", FALSE)

SpecAlmacen == Init /\ [][NextAlmacen]_vars

(***************************************************************************)
(* The store under the calls that change what list_registros returns:      *)
(* opened once, with acceptable records only, each call on a row it        *)
(* changes.                                                                *)
(***************************************************************************)
NextListado ==
    \/ ~con /\ init_db
    \/ /\ seq.alumnos <= MaxCatalogo /\ Len(auditoria) < MaxAuditListado
       /\ insert_alumno(<<" ", "a">>, <<"b">>, t_admin, FALSE)
    \/ /\ seq.lugares <= MaxCatalogo /\ Len(auditoria) < MaxAuditListado
       /\ insert_lugar(<<"c", " ">>, t_admin, FALSE)
    \/ /\ 1 \in DOMAIN alumnos /\ Len(auditoria) < MaxAuditListado
       /\ alumnos[1].activo
       /\ soft_delete_alumno(1, t_admin, FALSE)
    \/ /\ 1 \in DOMAIN alumnos /\ Len(auditoria) < MaxAuditListado
       /\ ~alumnos[1].activo
       /\ restore_alumno(1, t_admin, FALSE)
    \/ /\ 1 \in DOMAIN lugares /\ Len(auditoria) < MaxAuditListado
       /\ lugares[1].activo
       /\ soft_delete_lugar(1, t_admin, FALSE)
    \/ /\ seq.registros <= MaxListado /\ Len(auditoria) < MaxAuditListado
       /\ DOMAIN alumnos # {} /\ DOMAIN lugares # {}
       /\ \E r \in RegistrosAceptables, d \in FechasRegistros :
              insert_registro(r.alumno_id, r.lugar_id, <<"x", " ">>, d, r.horas, r.anio,
                              r.semestre, t_admin, FALSE)
    \/ /\ Len(auditoria) < MaxAuditListado
       /\ \E i \in DOMAIN registros :
              /\ ~registros[i].validado
              /\ validar_registro(i, <<" ", "v">>, t_admin, FALSE)

SpecListado == Init /\ [][NextListado]_vars

(***************************************************************************)
(* The pages in one browser session: the login form and the federated      *)
(* login of 0_Inicio.py, the logout button of the sidebar, the pages of    *)
(* the catalogs, of the records and of the validation, and create_user     *)
(* called for a student account linked to the first student.               *)
(***************************************************************************)
t_ana == <<"a", "n", "a">>

\* insert_alumno run by a second thread of the process, up to the return of
\* _next_id('seq_alumnos'): the identifier is drawn and held
insert_alumno_next_id ==
    /\ con
    /\ held_id = NoId
    /\ held_id' = seq.alumnos
    /\ seq' = [seq EXCEPT !.alumnos = @ + 1]
    /\ issued' = [issued EXCEPT !.alumnos = @ \cup {seq.alumnos}]
    /\ lastOp' = Op("_next_id", TRUE, seq.alumnos, NoRow, NullText)
    /\ UNCHANGED <<con, alumnos, lugares, registros, usuarios, auditoria, faults>>
    /\ UNCHANGED <<session, environ>>

\* the rest of that call: the INSERT under the held identifier, which the
\* primary key refuses when the identifier is stored, and _audit
insert_alumno_insert(nombre, carrera, usuario) ==
    /\ con
    /\ held_id # NoId
    /\ LET pk == held_id \in DOMAIN alumnos
       IN /\ alumnos' = IF pk THEN alumnos
                        ELSE InsertRow(alumnos, AlumnoRow(held_id, Strip(nombre), Strip(carrera), TRUE))
          /\ IF pk THEN auditoria' = auditoria
             ELSE _audit(FALSE, "INSERT", "alumnos", held_id, NoRow,
                         AlumnoRow(held_id, nombre, carrera, TRUE), usuario)
          /\ seq' = IF pk THEN seq ELSE AuditOnlySeq(FALSE)
          /\ issued' = IF pk THEN issued ELSE AuditOnlyIssued(FALSE)
          /\ lastOp' = Op("insert_alumno", ~pk /\ ~AuditRaises(FALSE), held_id, NoRow, NullText)
    /\ held_id' = NoId
    /\ UNCHANGED <<con, lugares, registros, usuarios, faults>>
    /\ UNCHANGED <<session, environ>>

\* two threads of the process on the one connection: the script of
\* 0_Inicio.py runs init_db for a session, the students page inserts for it,
\* and the students page of another session inserts in two steps
NextConcurrente ==
    \/ init_db
    \/ /\ seq.alumnos <= MaxId /\ Len(auditoria) < MaxAuditConcurrente
       /\ insert_alumno(<<"a">>, <<"b">>, t_admin, FALSE)
    \/ /\ seq.lugares <= MaxCatalogo /\ Len(auditoria) < MaxAuditConcurrente
       /\ insert_lugar(<<"c">>, t_admin, FALSE)
    \/ /\ seq.alumnos <= MaxId
       /\ insert_alumno_next_id
    \/ /\ Len(auditoria) < MaxAuditConcurrente
       /\ insert_alumno_insert(<<"z">>, <<"b">>, t_empresa)

SpecConcurrente == Init /\ [][NextConcurrente]_vars

\* records that are inserted and validated, more than once and under two
\* names
NextValidar ==
    \/ init_db
    \/ /\ seq.alumnos <= MaxCatalogo
       /\ insert_alumno(<<"a">>, <<"b">>, t_admin, FALSE)
    \/ /\ seq.lugares <= MaxCatalogo
       /\ insert_lugar(<<"c">>, t_admin, FALSE)
    \/ /\ seq.registros <= MaxRegistros /\ Len(auditoria) < MaxAuditValidacion
       /\ insert_registro(1, 1, <<"x">>, 1, 150, 2024, 1, t_admin, FALSE)
    \/ /\ Len(auditoria) < MaxAuditValidacion
       /\ \E i \in DOMAIN registros, v \in {<<"v">>, <<" ", "w">>} :
              validar_registro(i, v, t_empresa, FALSE)

SpecValidar == Init /\ [][NextValidar]_vars

\* the passwords handed to _pbkdf2_hash and _pbkdf2_verify
HashPasswords == {<<>>, <<chr_0>>, <<"a">>, <<"a", chr_0>>, <<"b">>}

\* the values os.urandom(16) returns
HashSalts == {"s1", "s2"}

\* h = _pbkdf2_hash(password), with the salt os.urandom returns; the call
\* before it is kept when it was a call of _pbkdf2_hash too
hash_call(password, salt) ==
    /\ lastOp' = Op("_pbkdf2_hash", TRUE, NoId,
                    IF lastOp.op = "_pbkdf2_hash" THEN lastOp.arg ELSE NoRow,
                    [password |-> password,
                     h |-> _pbkdf2_hash(password, salt, PBKDF2_ITERATIONS)])
    /\ UNCHANGED storeVars
    /\ UNCHANGED sessionVars

\* _pbkdf2_verify(password, h['salt_b64'], h['iters'], h['hash_b64']) on the
\* h of the call before
verify_call(password) ==
    /\ lastOp.op = "_pbkdf2_hash"
    /\ LET h == lastOp.arg.h
       IN lastOp' = Op("_pbkdf2_verify",
                       _pbkdf2_verify(password, h.salt_b64, h.iters, h.hash_b64),
                       NoId, lastOp.arg, [password |-> password])
    /\ UNCHANGED storeVars
    /\ UNCHANGED sessionVars

NextHash ==
    \/ \E p \in HashPasswords, salt \in HashSalts : hash_call(p, salt)
    \/ \E p \in HashPasswords : verify_call(p)

SpecHash == Init /\ [][NextHash]_vars

\* the catalog pages and the listing of the records page, used by the two
\* seed accounts admin and estudiante
NextPaginas ==
    \/ \E u \in {t_admin, t_estudiante} : Inicio_login(u, SeedPassword)
    \/ Administradores_logout
    \/ /\ seq.alumnos <= MaxCatalogo /\ Len(auditoria) < MaxAuditPaginas
       /\ \E n \in {<<>>, <<" ", "a">>} : Alumnos_agregar(n, <<"b">>)
    \/ /\ Len(auditoria) < MaxAuditPaginas
       /\ \E m \in BOOLEAN : Alumnos_desactivar(m, 1)
    \/ /\ Len(auditoria) < MaxAuditPaginas
       /\ \E m \in BOOLEAN : Alumnos_restaurar(m, 1)
    \/ /\ seq.lugares <= MaxCatalogo /\ Len(auditoria) < MaxAuditPaginas
       /\ Lugares_agregar(<<"c", " ">>)
    \/ /\ Len(auditoria) < MaxAuditPaginas
       /\ Lugares_desactivar(FALSE, 1)
    \/ /\ Len(auditoria) < MaxAuditPaginas
       /\ Lugares_restaurar(TRUE, 1)
    \/ \E pend \in BOOLEAN, al \in {t_Todos, str(1)}, y \in {0, 2024}, t \in {<<"-">>, str(1)} :
           Registros(pend, al, y, t)

SpecPaginas == Init /\ [][NextPaginas]_vars

\* the validation page and the pages that lead to a record, used by the seed
\* accounts estudiante and empresa
NextValidacion ==
    \/ \E u \in {t_estudiante, t_empresa} : Inicio_login(u, SeedPassword)
    \/ Administradores_logout
    \/ /\ seq.alumnos <= MaxCatalogo /\ Alumnos_agregar(<<"a">>, <<"b">>)
    \/ /\ seq.lugares <= MaxCatalogo /\ Lugares_agregar(<<"c">>)
    \/ /\ seq.registros <= MaxCatalogo
       /\ Registros_agregar(1, 1, <<"x">>, 1, 150, 2024, 1)
    \/ /\ Len(auditoria) < MaxAuditValidacion
       /\ \E v \in {current_user(session), <<" ", "v">>} : Validacion_validar(1, v)

SpecValidacion == Init /\ [][NextValidacion]_vars

\* the form of the records page, used by admin and by an account of role
\* Estudiante that create_user links to student 1
NextVinculo ==
    \/ \E u \in {t_admin, t_ana} : Inicio_login(u, SeedPassword)
    \/ Administradores_logout
    \/ /\ seq.usuarios <= MaxUsuarioId
       /\ create_user(t_ana, SeedPassword, "Estudiante", 1, "s1", FALSE)
    \/ /\ seq.alumnos <= MaxId /\ Alumnos_agregar(<<"a">>, <<"b">>)
    \/ Alumnos_desactivar(FALSE, 1)
    \/ /\ seq.lugares <= MaxCatalogo /\ Lugares_agregar(<<"c">>)
    \/ /\ seq.registros <= MaxCatalogo
       /\ \E a \in 1..MaxId, h \in {0, 150} :
              Registros_agregar(a, 1, <<"x">>, 1, h, 2024, 1)

SpecVinculo == Init /\ [][NextVinculo]_vars

(***************************************************************************)
(* The functions of utils/auth.py called one by one on a store whose       *)
(* users are the seeds and those create_user adds.                         *)
(***************************************************************************)
\* login(user, password)
auth_login(user, password) ==
    /\ con
    /\ LET info == verify_user(usuarios, user, password)
       IN /\ session' = login(session, info)
          /\ lastOp' = Op("login", info # NoRow, IF info = NoRow THEN NoId ELSE info.id,
                          NoRow, user)
    /\ UNCHANGED storeVars
    /\ UNCHANGED <<environ, held_id>>

\* logout()
auth_logout ==
    /\ session' = logout(session)
    /\ lastOp' = Op("logout", TRUE, NoId, NoRow, NullText)
    /\ UNCHANGED storeVars
    /\ UNCHANGED <<environ, held_id>>

\* what login is called with: seeded names, one to be trimmed and lowered,
\* the name create_user adds, an unknown one
AuthUsers == LoginUsers \cup {<<"a", "n", "a">>, t_empresa, t_depto}

AuthPasswords == {SeedPassword, <<"x">>, <<"p", "w">>}

NextAuth ==
    \/ init_db
    \/ /\ seq.usuarios <= MaxUsuarioId
       /\ \E n \in NewUsernames, p \in NewPasswords, r \in {"Estudiante", "Docente"},
             s \in Salts : create_user(n, p, r, NoId, s, FALSE)
    \/ \E u \in AuthUsers, p \in AuthPasswords : auth_login(u, p)
    \/ auth_logout

SpecAuth == Init /\ [][NextAuth]_vars

(***************************************************************************)
(* Properties of the store.                                                *)
(***************************************************************************)
\* the identifiers the step draws from the sequence of table t: a sequence
\* only grows by nextval, one value at a time
DrawnInStep(t) == IF seq'[t] > seq[t] THEN seq[t]..(seq'[t] - 1) ELSE {}

\* C1: every identifier the allocator hands out for a table is strictly
\* greater than every identifier it handed out before for that table and
\* than every identifier stored in the table, across failed inserts and
\* reinitializations.
C1_IdsStrictlyIncreasing ==
    [][\A t \in Tablas : \A i \in DrawnInStep(t) :
          /\ \A j \in issued[t] : j < i
          /\ \A j \in IdsOf(t) : j < i]_vars

InsertedIn(old, new) == Cardinality(DOMAIN new \ DOMAIN old)

\* the rows of alumnos, lugares, registros and usuarios the step inserts or
\* updates
MutationsInStep ==
    InsertedIn(alumnos, alumnos') + InsertedIn(lugares, lugares')
    + InsertedIn(registros, registros') + InsertedIn(usuarios, usuarios')
    + (IF /\ lastOp'.op \in {"soft_delete_alumno", "restore_alumno"}
          /\ lastOp'.id \in DOMAIN alumnos THEN 1 ELSE 0)
    + (IF /\ lastOp'.op \in {"soft_delete_lugar", "restore_lugar"}
          /\ lastOp'.id \in DOMAIN lugares THEN 1 ELSE 0)
    + (IF /\ lastOp'.op = "validar_registro"
          /\ lastOp'.id \in DOMAIN registros THEN 1 ELSE 0)

\* C2: the audit entries correspond one to one to the row mutations: every
\* step appends as many audit entries as it inserts or updates rows.
C2_AuditOneToOne ==
    [][Len(auditoria') = Len(auditoria) + MutationsInStep]_vars

\* C3: a store call that ends in an error leaves the data tables and the
\* audit log exactly as they were.
C3_FailedCallChangesNothing ==
    [][~lastOp'.ok =>
          /\ alumnos' = alumnos /\ lugares' = lugares /\ registros' = registros
          /\ usuarios' = usuarios /\ auditoria' = auditoria]_vars

\* C4: validar_registro on an id that names no record reports an error,
\* changes no record and appends no audit entry.
C4_ValidarMissingIsError ==
    [][(lastOp'.op = "validar_registro" /\ lastOp'.id \notin DOMAIN registros) =>
          /\ ~lastOp'.ok
          /\ registros' = registros
          /\ auditoria' = auditoria]_vars

LastAudit(log) == log[Len(log)]

\* the step is a call op on existing, active row id that returned normally
DeletesActive(op, table) ==
    /\ lastOp'.op = op /\ lastOp'.ok
    /\ lastOp'.id \in DOMAIN table
    /\ table[lastOp'.id].activo

\* the step is call op, returning normally, on the row that the step before
\* soft-deleted while it was active
RestoresAfterDelete(deleteOp, restoreOp) ==
    /\ lastOp.op = deleteOp /\ lastOp.ok
    /\ lastOp.before # NoRow /\ lastOp.before.activo
    /\ lastOp'.op = restoreOp /\ lastOp'.ok
    /\ lastOp'.id = lastOp.id

\* one entry was appended, with this action on this entity
AppendsOne(accion, tabla, id) ==
    /\ Len(auditoria') = Len(auditoria) + 1
    /\ SubSeq(auditoria', 1, Len(auditoria)) = auditoria
    /\ LastAudit(auditoria').accion = accion
    /\ LastAudit(auditoria').tabla = tabla
    /\ LastAudit(auditoria').entity_id = id

\* C5: for an active student or place, soft_delete followed by restore
\* (both returning normally) leaves the row identical to the one before the
\* delete, and the two calls append exactly two audit entries for it, a
\* DELETE and then an UPDATE.
C5_SoftDeleteRestoreRoundTrip ==
    [][/\ DeletesActive("soft_delete_alumno", alumnos)
            => AppendsOne("DELETE", "alumnos", lastOp'.id)
       /\ DeletesActive("soft_delete_lugar", lugares)
            => AppendsOne("DELETE", "lugares", lastOp'.id)
       /\ RestoresAfterDelete("soft_delete_alumno", "restore_alumno")
            => /\ alumnos'[lastOp.id] = lastOp.before
               /\ \A i \in DOMAIN alumnos \ {lastOp.id} : alumnos'[i] = alumnos[i]
               /\ AppendsOne("UPDATE", "alumnos", lastOp.id)
               /\ LastAudit(auditoria).accion = "DELETE"
               /\ LastAudit(auditoria).entity_id = lastOp.id
       /\ RestoresAfterDelete("soft_delete_lugar", "restore_lugar")
            => /\ lugares'[lastOp.id] = lastOp.before
               /\ \A i \in DOMAIN lugares \ {lastOp.id} : lugares'[i] = lugares[i]
               /\ AppendsOne("UPDATE", "lugares", lastOp.id)
               /\ LastAudit(auditoria).accion = "DELETE"
               /\ LastAudit(auditoria).entity_id = lastOp.id]_vars

\* a student and a place have each been soft-deleted while active and then
\* restored, the log ending with the DELETE and the UPDATE of the place
C5_Witness ==
    /\ lastOp.op = "restore_lugar" /\ lastOp.ok
    /\ lastOp.before # NoRow /\ ~lastOp.before.activo
    /\ Len(auditoria) >= 2
    /\ auditoria[Len(auditoria) - 1].accion = "DELETE"
    /\ auditoria[Len(auditoria) - 1].tabla = "lugares"
    /\ auditoria[Len(auditoria) - 1].entity_id = lastOp.id
    /\ auditoria[Len(auditoria) - 1].before_json = json_dumps(lugares[lastOp.id])
    /\ LastAudit(auditoria).accion = "UPDATE"
    /\ lugares[lastOp.id].activo

\* the text of the row as json.dumps renders it: a DATE as its ISO text
RowAsSnapshot(tabla, id) ==
    CASE tabla = "alumnos" -> alumnos'[id]
      [] tabla = "lugares" -> lugares'[id]
      [] tabla = "registros" -> [registros'[id] EXCEPT !.fecha = StrDate(@)]

InsertOps == {"insert_alumno", "insert_lugar", "insert_registro"}

TablaOf(op) ==
    CASE op = "insert_alumno" -> "alumnos"
      [] op = "insert_lugar" -> "lugares"
      [] op = "insert_registro" -> "registros"

\* C6: the after-snapshot of the INSERT audit entry of insert_alumno,
\* insert_lugar and insert_registro equals the stored row field by field,
\* and the before-snapshot is absent.
C6_InsertSnapshotIsRow ==
    [][(lastOp'.op \in InsertOps /\ lastOp'.ok) =>
          /\ LastAudit(auditoria').accion = "INSERT"
          /\ LastAudit(auditoria').entity_id = lastOp'.id
          /\ LastAudit(auditoria').before_json = NoJson
          /\ LastAudit(auditoria').after_json
                = json_dumps(RowAsSnapshot(TablaOf(lastOp'.op), lastOp'.id))]_vars

(***************************************************************************)
(* Properties of the session.                                              *)
(***************************************************************************)
\* C7: the admin set changes only in a step of a session that is
\* authenticated with role Admin.
C7_AdminSetOnlyByAdmin ==
    [][AdminStudents(session') # AdminStudents(session)
          => has_role(session, {"Admin"})]_vars

\* the identifier by which a federated session is a student, NullText when
\* it has none
OwnCode(s) == MatchStudent(Head(Split(Lower(Get(s, "email", <<>>)), "@")))

\* C8: when an Admin session asks to remove a member of the admin set, its
\* own identifier stays and leaves the set unchanged, and any other
\* identifier is no longer a member afterwards.
C8_AdminRemovesOthersNotItself ==
    [][(/\ lastOp'.op = "remove_admin"
        /\ has_role(session, {"Admin"})
        /\ lastOp'.arg \in AdminStudents(session))
          => IF lastOp'.arg = OwnCode(session)
             THEN AdminStudents(session') = AdminStudents(session)
             ELSE lastOp'.arg \notin AdminStudents(session')]_vars

\* the keys that local login, federated login and admin management write
LoginKeys ==
    {"auth", "user", "role", "alumno_id", "display_name", "email", "auth_method",
     "microsoft_admin_students"}

\* C9: after logout() none of the keys written by local login, by federated
\* login or by admin management is left in the session.
C9_LogoutClearsSession ==
    lastOp.op = "logout" => DOMAIN session \cap LoginKeys = {}

\* the address ends with an allowed domain, letter case apart
EndsWithAllowedDomain(email) ==
    \E d \in DOMINIOS_PERMITIDOS :
        /\ Len(email) >= Len(d)
        /\ \A i \in 1..Len(d) : LowerChar(email[Len(email) - Len(d) + i]) = d[i]

\* C10: when the provider presents an identity whose email does not end
\* with the allowed domain (letter case apart), the flow leaves auth, user,
\* role, email and display_name as they were and is_logged() false.
C10_WrongDomainRejected ==
    [][(/\ lastOp'.op = "microsoft_login_flow"
        /\ lastOp'.arg # NullText
        /\ ~EndsWithAllowedDomain(lastOp'.arg))
          => /\ \A k \in {"auth", "user", "role", "email", "display_name"} :
                    /\ Has(session', k) <=> Has(session, k)
                    /\ Has(session, k) => session'[k] = session[k]
             /\ ~is_logged(session')]_vars

\* the flow has just turned away an address that holds the domain but does
\* not end with it, in a session that had opened the login popup, and one
\* with no address at all
C10_Witness ==
    /\ lastOp.op = "microsoft_login_flow"
    /\ lastOp.arg = t_ajeno
    /\ ~lastOp.ok
    /\ ~is_logged(session)
    /\ Has(session, "ms_popup_login")
    /\ ~Has(session, "email")

(***************************************************************************)
(* Properties of utils/auth.py.                                            *)
(***************************************************************************)
\* the rows of usuarios a typed name selects
RowsNamed(user) == {i \in DOMAIN usuarios : usuarios[i].username = Lower(Strip(user))}

\* C11: a failed login has one outcome, whether the name is unknown or the
\* password is wrong: it returns False, names no user and leaves every
\* session key as it was; a successful login sets auth, user, role and
\* alumno_id from the matched row of usuarios and nothing else.
C11_LoginOutcome ==
    [][lastOp'.op = "login" =>
          IF ~lastOp'.ok
          THEN /\ lastOp'.id = NoId
               /\ session' = session
          ELSE /\ lastOp'.id \in RowsNamed(lastOp'.arg)
               /\ session'["auth"] = TRUE
               /\ session'["user"] = usuarios[lastOp'.id].username
               /\ session'["role"] = usuarios[lastOp'.id].role
               /\ session'["alumno_id"] = usuarios[lastOp'.id].alumno_id
               /\ \A k \in DOMAIN session' \ {"auth", "user", "role", "alumno_id"} :
                      Has(session, k) /\ session'[k] = session[k]]_vars

\* a login has just failed on the password of a user that exists, typed
\* with spaces and capitals, in a session that another user holds
C11_Witness ==
    /\ lastOp.op = "login" /\ ~lastOp.ok
    /\ lastOp.arg = <<" ", "A", "d", "m", "i", "n">>
    /\ RowsNamed(lastOp.arg) # {}
    /\ is_logged(session)
    /\ session["role"] = "Estudiante"

\* the sets of roles has_role is asked about: of the five roles and of the
\* empty text that current_role gives a session without role
RoleSets == SUBSET (Roles \cup {""})

\* C12: has_role(S) holds exactly when the session is authenticated and its
\* role is in S; it is false for every S in an unauthenticated session, in
\* particular after logout.
C12_HasRoleIffAuthenticatedMember ==
    /\ \A S \in RoleSets :
          has_role(session, S) <=>
              /\ Has(session, "auth") /\ session["auth"] = TRUE
              /\ Has(session, "role") /\ session["role"] \in S
    /\ lastOp.op \in {"logout", "Inicio_logout"} =>
          \A S \in RoleSets : ~has_role(session, S)

\* a federated session has logged out: what its login wrote beside the four
\* keys is still there, and has_role is false for every set
C12_Witness ==
    /\ lastOp.op = "logout"
    /\ Has(session, "email") /\ ~Has(session, "auth") /\ ~Has(session, "role")
    /\ \A S \in RoleSets : ~has_role(session, S)

(***************************************************************************)
(* Properties of the role derivation.                                      *)
(***************************************************************************)
\* local parts: a student's with the default admin code, with another code,
\* in capitals, letters only, a lone 2 after the letter, digits only,
\* letters after the code, a digit other than 2, a dot, a space, none
LocalParts ==
    {<<"a", "2", "5", "8", "3", "7">>, <<"b", "2", "6">>, <<"B", "2", "6">>,
     <<"d", "o", "c">>, <<"D", "o", "c">>, <<"a", "2">>, <<"2", "6">>,
     <<"a", "2", "6", "b">>, <<"a", "3", "6">>, <<"a", ".", "b">>, <<"a", " ", "2", "6">>,
     <<>>}

\* the emails determinar_rol is asked about: each local part with the
\* domain, with another domain, with no domain; the empty email and None
EmailInputs ==
    {l \o t_dominio : l \in LocalParts} \cup {l \o <<"@", "x">> : l \in LocalParts}
        \cup LocalParts \cup {NullText}

\* the text before the first @, lowered
LocalPart(email) ==
    LET k == Find(email, "@")
    IN Lower(IF k = 0 THEN email ELSE SubSeq(email, 1, k - 1))

\* a code: 2 and then one digit or more
IsCode(c) == Len(c) >= 2 /\ c[1] = "2" /\ \A i \in 1..Len(c) : IsDigit(c[i])

\* the codes that follow one letter or more and end the local part
CodesOf(local) ==
    {SubSeq(local, k + 1, Len(local)) : k \in
        {j \in 1..(Len(local) - 1) :
            /\ \A i \in 1..j : IsLetter(local[i])
            /\ IsCode(SubSeq(local, j + 1, Len(local)))}}

ExpectedRol(s, email) ==
    IF email = NullText \/ email = <<>> THEN "Estudiante"
    ELSE LET local == LocalPart(email)
         IN IF CodesOf(local) # {}
            THEN (IF CodesOf(local) \cap AdminStudents(s) # {} THEN "Admin" ELSE "Estudiante")
            ELSE IF local # <<>> /\ \A i \in 1..Len(local) : IsLetter(local[i])
            THEN "Docente"
            ELSE "Estudiante"

\* C13: determinar_rol gives Admin for a local part of letters followed by
\* a code (2 and digits) of the admin set, Estudiante for that form with a
\* code outside the set, Docente for letters only and Estudiante for every
\* other email, the empty one included; the role a federated login writes
\* is the one derived from its email.
C13_DeterminarRol ==
    /\ \A email \in EmailInputs : determinar_rol(session, email) = ExpectedRol(session, email)
    /\ lastOp.op = "microsoft_login_flow" /\ lastOp.ok
          => session["role"] = ExpectedRol(session, lastOp.arg)

\* a federated session holds role Admin by its code and, under the same
\* admin set, the derivation gives the three roles
C13_Witness ==
    /\ lastOp.op = "microsoft_login_flow" /\ lastOp.ok
    /\ session["role"] = "Admin"
    /\ determinar_rol(session, <<"b", "2", "6">> \o t_dominio) = "Admin"
    /\ determinar_rol(session, t_docente) = "Docente"
    /\ determinar_rol(session, <<"a", "2">> \o t_dominio) = "Estudiante"
    /\ determinar_rol(session, <<>>) = "Estudiante"

(***************************************************************************)
(* Claims on records: validation, constraints, listing, totals.            *)
(***************************************************************************)
\* the stored record as a SELECT * reads it back into a dict
RowRead(row) == [row EXCEPT !.fecha = IsoTimestamp(@)]

\* the step is a validar_registro on a record that exists, returning normally
ValidatesExisting ==
    /\ lastOp'.op = "validar_registro" /\ lastOp'.ok
    /\ lastOp'.id \in DOMAIN registros

\* C14: validar_registro on an existing record sets validado to TRUE and
\* validador to the trimmed name, leaves every other field of that record,
\* every other record and every other table as they were, and appends
\* exactly one VALIDAR audit entry whose before-snapshot is the full row
\* before the update and whose after-snapshot is the full row after it.
C14_ValidarExisting ==
    [][ValidatesExisting =>
          /\ DOMAIN registros' = DOMAIN registros
          /\ registros'[lastOp'.id].validado = TRUE
          /\ registros'[lastOp'.id].validador = Strip(lastOp'.arg)
          /\ \A f \in DOMAIN registros[lastOp'.id] \ {"validado", "validador"} :
                 registros'[lastOp'.id][f] = registros[lastOp'.id][f]
          /\ \A i \in DOMAIN registros \ {lastOp'.id} : registros'[i] = registros[i]
          /\ alumnos' = alumnos /\ lugares' = lugares /\ usuarios' = usuarios
          /\ AppendsOne("VALIDAR", "registros", lastOp'.id)
          /\ LastAudit(auditoria').before_json = json_dumps(RowRead(registros[lastOp'.id]))
          /\ LastAudit(auditoria').after_json = json_dumps(RowRead(registros'[lastOp'.id]))]_vars

\* a pending record was validated under a name given with a leading space
C14_Witness ==
    /\ lastOp.op = "validar_registro" /\ lastOp.ok
    /\ lastOp.id \in DOMAIN registros
    /\ lastOp.arg = <<" ", "v">>
    /\ registros[lastOp.id].validador = <<"v">>
    /\ LastAudit(auditoria).accion = "VALIDAR"
    /\ LastAudit(auditoria).before_json.json.validado = FALSE
    /\ LastAudit(auditoria).after_json.json.validado = TRUE

\* the step is call op naming an identifier that table does not hold
NamesMissing(op, table) == lastOp'.op = op /\ lastOp'.id \notin DOMAIN table

\* C15: soft_delete_alumno, restore_alumno, soft_delete_lugar and
\* restore_lugar called with an identifier that does not exist change no
\* row, append no audit entry and raise no error.
C15_MissingIdIsNoOp ==
    [][(\/ NamesMissing("soft_delete_alumno", alumnos)
        \/ NamesMissing("restore_alumno", alumnos)
        \/ NamesMissing("soft_delete_lugar", lugares)
        \/ NamesMissing("restore_lugar", lugares)) =>
          /\ lastOp'.ok
          /\ alumnos' = alumnos /\ lugares' = lugares
          /\ registros' = registros /\ usuarios' = usuarios
          /\ auditoria' = auditoria]_vars

\* a restore named a student that does not exist, next to one that does and
\* is soft-deleted, and returned
C15_Witness ==
    /\ lastOp.op = "restore_alumno" /\ lastOp.ok
    /\ lastOp.id \notin DOMAIN alumnos
    /\ \E i \in DOMAIN alumnos : ~alumnos[i].activo
    /\ Len(auditoria) >= 2

\* the stored records keep the constraints of the table
StoredRecordsValid ==
    \A i \in DOMAIN registros :
        /\ registros[i].horas > 0
        /\ registros[i].semestre \in {1, 2}
        /\ registros[i].alumno_id \in DOMAIN alumnos
        /\ registros[i].lugar_id \in DOMAIN lugares

\* the arguments break a constraint, in the store the call found
ViolatesConstraint(r) ==
    \/ r.horas <= 0
    \/ r.semestre \notin {1, 2}
    \/ r.alumno_id \notin DOMAIN alumnos
    \/ r.lugar_id \notin DOMAIN lugares

\* C16: every stored record has hours greater than zero, a semester of 1 or
\* 2, and alumno_id and lugar_id that name an existing student and place;
\* records are created with validado FALSE and no validador; an insert that
\* violates a constraint is rejected and stores nothing.
C16_RecordConstraints ==
    /\ []StoredRecordsValid
    /\ [][lastOp'.op = "insert_registro" =>
            /\ ViolatesConstraint(lastOp'.arg) => ~lastOp'.ok /\ registros' = registros
            /\ \A i \in DOMAIN registros' \ DOMAIN registros :
                   /\ i = lastOp'.id
                   /\ registros'[i].validado = FALSE
                   /\ registros'[i].validador = NullText
                   /\ registros'[i].alumno_id = lastOp'.arg.alumno_id
                   /\ registros'[i].lugar_id = lastOp'.arg.lugar_id
                   /\ registros'[i].horas = lastOp'.arg.horas
                   /\ registros'[i].semestre = lastOp'.arg.semestre
            /\ \A i \in DOMAIN registros : registros'[i] = registros[i]]_vars

\* with a record stored, an insert of zero hours for the same student and
\* place was rejected
C16_Witness ==
    /\ lastOp.op = "insert_registro" /\ ~lastOp.ok
    /\ lastOp.arg.horas = 0
    /\ lastOp.arg.alumno_id \in DOMAIN alumnos /\ lastOp.arg.lugar_id \in DOMAIN lugares
    /\ DOMAIN registros # {}
    /\ lastOp.id \notin DOMAIN registros

\* the filters list_registros is asked with
FiltroAlumno == {None} \cup {Some(a) : a \in 1..2}

FiltroAnio == {None} \cup {Some(y) : y \in {0, 2024}}

FiltroSemestre == {None, Some(1)}

\* record i satisfies every filter that was supplied
Satisfies(i, pendientes, alumno_id, anio, semestre, incluir_inactivos) ==
    /\ pendientes => ~registros[i].validado
    /\ alumno_id \subseteq {registros[i].alumno_id}
    /\ anio \subseteq {registros[i].anio}
    /\ semestre \subseteq {registros[i].semestre}
    /\ incluir_inactivos \/ (/\ alumnos[registros[i].alumno_id].activo
                             /\ lugares[registros[i].lugar_id].activo)

\* out lists the records of ids once each, newest date first and, within a
\* date, largest identifier first
ListsExactly(out, ids) ==
    /\ Len(out) = Cardinality(ids)
    /\ {out[k].id : k \in 1..Len(out)} = ids
    /\ \A k \in 1..Len(out) :
           \A f \in DOMAIN registros[out[k].id] : out[k][f] = registros[out[k].id][f]
    /\ \A k \in 1..(Len(out) - 1) :
           \/ out[k].fecha > out[k + 1].fecha
           \/ out[k].fecha = out[k + 1].fecha /\ out[k].id > out[k + 1].id

\* C17: list_registros returns exactly the records that satisfy every
\* supplied filter at once (pendientes, alumno_id, anio, semestre) and, when
\* incluir_inactivos is false, whose student and place are both active; the
\* result is ordered by date descending and, for equal dates, by identifier
\* descending.
C17_ListRegistros ==
    \A p \in BOOLEAN, a \in FiltroAlumno, y \in FiltroAnio, t \in FiltroSemestre,
       inc \in BOOLEAN :
        LET out == list_registros(p, a, y, t, inc)
            ids == {i \in DOMAIN registros : Satisfies(i, p, a, y, t, inc)}
        IN ListsExactly(out, ids)

\* two records of one date are stored, one of them validated: the listing of
\* all has the newer one first, the listing of the pending ones has one row
C17_Witness ==
    /\ Len(list_registros(FALSE, None, None, None, FALSE)) = 2
    /\ list_registros(FALSE, None, None, None, FALSE)[1].fecha
         = list_registros(FALSE, None, None, None, FALSE)[2].fecha
    /\ list_registros(FALSE, None, None, None, FALSE)[1].id = 2
    /\ Len(list_registros(TRUE, None, None, None, FALSE)) = 1
    /\ Len(list_registros(FALSE, None, Some(2025), None, FALSE)) = 1

\* the sum, over the identifiers up to n, of the hours of those in ids
RECURSIVE HoursUpTo(_, _)
HoursUpTo(n, ids) ==
    IF n = 0 THEN 0
    ELSE (IF n \in ids THEN registros[n].horas ELSE 0) + HoursUpTo(n - 1, ids)

\* the records of a student, year and term
RecordsOf(a, y, t) ==
    {i \in DOMAIN registros : /\ registros[i].alumno_id = a /\ registros[i].anio = y
                              /\ registros[i].semestre = t}

\* the records of one year as the list of the console program, oldest first
RECURSIVE ListaDe(_, _)
ListaDe(n, y) ==
    IF n = 0 THEN <<>>
    ELSE ListaDe(n - 1, y)
           \o (IF n \in DOMAIN registros /\ registros[n].anio = y THEN <<registros[n]>>
               ELSE <<>>)

EstadoArgs == (1..2) \X {2024, 2025} \X {1, 2}

\* C18: for every student, year and term, estado_alumno returns (total,
\* validated), total being the sum of hours over all records of that student,
\* year and term and validated the sum over those with validado TRUE, so
\* 0 <= validated <= total; the remaining hours computed from it are
\* max(0, requirement - validated), never negative.
C18_EstadoAlumno ==
    \A x \in EstadoArgs :
        LET e == estado_alumno(x[1], x[2], x[3])
            n == MaxIdOf(registros)
            lista == ListaDe(n, x[2])
        IN /\ e.total = HoursUpTo(n, RecordsOf(x[1], x[2], x[3]))
           /\ e.validadas
                = HoursUpTo(n, {i \in RecordsOf(x[1], x[2], x[3]) : registros[i].validado})
           /\ 0 <= e.validadas /\ e.validadas <= e.total
           /\ sumar(lista, x[1], x[3], FALSE) = e.total
           /\ sumar(lista, x[1], x[3], TRUE) = e.validadas
           /\ falta(e.validadas) >= 0
           /\ falta(e.validadas) >= REQUISITO * 100 - e.validadas
           /\ falta(e.validadas) \in {0, REQUISITO * 100 - e.validadas}

\* one term holds a pending record only, another a validated record of more
\* hours than the requirement
C18_Witness ==
    /\ estado_alumno(1, 2024, 1) = [total |-> 150, validadas |-> 0]
    /\ estado_alumno(1, 2025, 2) = [total |-> 600, validadas |-> 600]
    /\ falta(estado_alumno(1, 2024, 1).validadas) = 500
    /\ falta(estado_alumno(1, 2025, 2).validadas) = 0

ActivoOps == {"soft_delete_alumno", "restore_alumno", "soft_delete_lugar", "restore_lugar"}

\* C19: soft-deleting or restoring a student or a place leaves unchanged
\* every record and every value of estado_alumno(student, year, term).
C19_TotalsSurviveDeactivation ==
    [][lastOp'.op \in ActivoOps =>
          /\ registros' = registros
          /\ \A x \in EstadoArgs :
                 estado_alumno(x[1], x[2], x[3])' = estado_alumno(x[1], x[2], x[3])]_vars

\* the student of a validated record was soft-deleted; the record and its
\* total are still there
C19_Witness ==
    /\ lastOp.op = "soft_delete_alumno" /\ lastOp.ok
    /\ lastOp.before # NoRow /\ lastOp.before.activo
    /\ ~alumnos[lastOp.id].activo
    /\ \E i \in DOMAIN registros :
           /\ registros[i].alumno_id = lastOp.id
           /\ registros[i].validado
    /\ estado_alumno(1, 2024, 1).validadas = 150

\* every row of before is in after, the same but for the named fields
RowsKept(before, after, fields) ==
    /\ DOMAIN before \subseteq DOMAIN after
    /\ \A i \in DOMAIN before :
           \A f \in DOMAIN before[i] \ fields : after[i][f] = before[i][f]

\* C20: under any sequence of store operations no row of alumnos, lugares,
\* registros, usuarios or auditoria is ever removed; an existing audit entry
\* is never modified; a student or place row changes only in its activo
\* flag; a record row changes only in validado and validador.
C20_RowsOnlyGrow ==
    [][/\ RowsKept(alumnos, alumnos', {"activo"})
       /\ RowsKept(lugares, lugares', {"activo"})
       /\ RowsKept(registros, registros', {"validado", "validador"})
       /\ DOMAIN usuarios \subseteq DOMAIN usuarios'
       /\ Len(auditoria') >= Len(auditoria)
       /\ SubSeq(auditoria', 1, Len(auditoria)) = auditoria]_vars

\* a student, a place and a record are stored next to the seeded users, the
\* student soft-deleted and the record validated
C20_Witness ==
    /\ \E i \in DOMAIN alumnos : ~alumnos[i].activo
    /\ DOMAIN lugares # {}
    /\ \E i \in DOMAIN registros : registros[i].validado
    /\ Cardinality(DOMAIN usuarios) >= Len(SeedUsers)

\* C21: through the pages a student or a place is inserted, soft-deleted or
\* restored only by a session that is authenticated with role Admin.
C21_CatalogOnlyByAdmin ==
    [][(alumnos' # alumnos \/ lugares' # lugares)
       => (is_logged(session) /\ current_role(session) = "Admin")]_vars

\* C22: _pbkdf2_verify(password, salt, iterations, digest) on the values
\* _pbkdf2_hash stored for a non-empty password is true for that password
\* and false for every different password.
C22_VerifyIffSamePassword ==
    (lastOp.op = "_pbkdf2_verify" /\ lastOp.before.password # <<>>)
        => (lastOp.ok <=> lastOp.arg.password = lastOp.before.password)

\* two calls of _pbkdf2_hash give different digests when their salts or
\* their HMAC keys differ, and only then
DigestsFollowSaltAndKey ==
    (lastOp.op = "_pbkdf2_hash" /\ lastOp.before # NoRow)
        => ((lastOp.arg.h.hash_b64 # lastOp.before.h.hash_b64)
               <=> \/ lastOp.arg.h.salt_b64 # lastOp.before.h.salt_b64
                   \/ hmac_key(lastOp.arg.password) # hmac_key(lastOp.before.password))

\* C23: with init_db run by one session at any point between the _next_id
\* and the INSERT of another session's insert_alumno, no identifier of
\* alumnos is handed out twice and no insert of a student is refused by the
\* primary key.
C23_InitDbBetweenNextIdAndInsert ==
    [][/\ \A i \in DrawnInStep("alumnos") : i \notin issued.alumnos
       /\ (lastOp'.op = "insert_alumno" /\ lastOp' # lastOp) => lastOp'.ok]_vars

\* the session may validate: it is authenticated and its role is Empresa,
\* Departamento or Admin
MayValidate(s) == is_logged(s) /\ current_role(s) \in {"Empresa", "Departamento", "Admin"}

\* C24: through the validation page validar_registro is called only in a
\* session that is authenticated with role Empresa, Departamento or Admin;
\* in every other session the page stops and no stored record changes.
C24_ValidationOnlyByRole ==
    [][/\ (lastOp'.op = "validar_registro" /\ lastOp' # lastOp) => MayValidate(session)
       /\ ~MayValidate(session) =>
              /\ \A i \in DOMAIN registros : registros'[i] = registros[i]
              /\ lastOp'.op # "validar_registro"]_vars

\* the seed account empresa has just validated the pending record 1 on the
\* page
C24_Witness ==
    /\ lastOp.op = "validar_registro" /\ lastOp.ok /\ lastOp.id = 1
    /\ current_role(session) = "Empresa"
    /\ registros[1].validado

\* the rows of usuarios that carry the k-th seed name
SeedRowsNamed(table, k) == {i \in DOMAIN table : table[i].username = SeedUsers[k].uname}

\* C25: a run of init_db, at any point, changes no row of any table; it
\* inserts the four seed accounts when usuarios is empty and nothing
\* otherwise, so no seed account is ever stored twice.
C25_InitDbIdempotent ==
    /\ [][lastOp'.op = "init_db" =>
             /\ alumnos' = alumnos /\ lugares' = lugares
             /\ registros' = registros /\ auditoria' = auditoria
             /\ IF DOMAIN usuarios = {}
                THEN /\ Cardinality(DOMAIN usuarios') = Len(SeedUsers)
                     /\ \A k \in 1..Len(SeedUsers) :
                            \E i \in DOMAIN usuarios' :
                                /\ usuarios'[i].username = SeedUsers[k].uname
                                /\ usuarios'[i].role = SeedUsers[k].role
                ELSE usuarios' = usuarios]_vars
    /\ [](\A k \in 1..Len(SeedUsers) : Cardinality(SeedRowsNamed(usuarios, k)) <= 1)

\* init_db has just run on a store that holds the seeds, a created user, a
\* student and audit entries
C25_Witness ==
    /\ lastOp.op = "init_db"
    /\ Cardinality(DOMAIN usuarios) > Len(SeedUsers)
    /\ DOMAIN alumnos # {}
    /\ auditoria # <<>>

\* C26: a record that is validated stays validated under every operation; a
\* record that is not validated has no validador; validating a validated
\* record leaves it validated with the validador of the later call.
C26_ValidadoMonotone ==
    /\ [][\A i \in DOMAIN registros : registros[i].validado => registros'[i].validado]_vars
    /\ [](\A i \in DOMAIN registros :
              ~registros[i].validado => registros[i].validador = NullText)
    /\ [][(lastOp'.op = "validar_registro" /\ lastOp'.id \in DOMAIN registros)
              => /\ registros'[lastOp'.id].validado
                 /\ registros'[lastOp'.id].validador = Strip(lastOp'.arg)]_vars

\* a record validated under one name has just been validated again under
\* another, which the row now carries
C26_Witness ==
    /\ lastOp.op = "validar_registro" /\ lastOp.ok
    /\ auditoria # <<>>
    /\ LET e == LastAudit(auditoria)
       IN /\ e.accion = "VALIDAR"
          /\ e.before_json # NoJson
          /\ e.before_json.json.validado
          /\ e.before_json.json.validador # e.after_json.json.validador
          /\ registros[e.entity_id].validador = e.after_json.json.validador
          /\ registros[e.entity_id].validado

\* C27: in a session that a local login has just established, auth_method
\* is not 'Microsoft' and the keys email and display_name are absent.
C27_LocalLoginNotFederated ==
    (lastOp.op = "login" /\ lastOp.ok)
        => /\ ~Has(session, "email")
           /\ ~Has(session, "display_name")
           /\ ~(Has(session, "auth_method") /\ session["auth_method"] = "Microsoft")

\* C28: every record that the form of the Registros page inserts refers to
\* a student and a place that are both active when it is inserted.
C28_RecordOfActiveStudentAndPlace ==
    [][\A i \in DOMAIN registros' \ DOMAIN registros :
           /\ registros'[i].alumno_id \in DOMAIN alumnos
           /\ alumnos[registros'[i].alumno_id].activo
           /\ registros'[i].lugar_id \in DOMAIN lugares
           /\ lugares[registros'[i].lugar_id].activo]_vars

\* C29: when the Registros page builds its listing for a session of role
\* Estudiante, building the filter raises no error and the listing is
\* restricted to the student the session is linked to.
C29_StudentListingOwnRecords ==
    (/\ lastOp.op = "Registros_listado"
     /\ current_role(session) = "Estudiante"
     /\ ~lastOp.arg.stopped)
        => /\ ~lastOp.arg.raises
           /\ lastOp.arg.alumno_id = Some(current_alumno_id(session))

\* a string of digits that begins with 2
IsAdminCode(m) == m # <<>> /\ Head(m) = "2" /\ AllDigits(m)

\* C30: every member of the admin set of the session is a string of digits
\* that begins with 2.
C30_AdminSetMembers ==
    Has(session, "microsoft_admin_students")
        => \A m \in session["microsoft_admin_students"] : IsAdminCode(m)

\* codes, addresses and other texts given to _normalize_student_id_from_input
NormalizeInputs ==
    {<<>>, <<"6">>, <<" ", "2", "6">>, <<"b", "2", "6">>, <<"b", "6">>, <<"x">>,
     t_alumno, t_ALUMNO, t_docente, <<"6">> \o t_dominio, <<"2", "6">> \o t_dominio}

\* _normalize_student_id_from_input returns None or a string of digits that
\* begins with 2, which it returns unchanged when given it
NormalizeIsIdempotent ==
    \A c \in NormalizeInputs :
        LET n == _normalize_student_id_from_input(c)
        IN n = NullText \/ (IsAdminCode(n) /\ _normalize_student_id_from_input(n) = n)

\* add_admins_from_codes keeps every member of the set it is given
AddCodesKeepsMembers ==
    \A c \in NormalizeInputs :
        AdminStudents(session) \subseteq AddCodes(AdminStudents(session), <<c, c>>)

=============================================================================
